---- MODULE Spec2Model ----
(***************************************************************************)
(* Route matching and request dispatch of the Router / Http2Router classes *)
(* (router.ts).                                                            *)
(*                                                                         *)
(* Strings are sequences of tokens.  A path is written character by        *)
(* character ("/", "a", ":", "x", ...); an HTTP method is one token        *)
(* ("GET"), because no method name contains "/" or is part of a path.      *)
(* The token GROUP stands for the seven characters "([^/]+)" that #parse   *)
(* substitutes for a ":name" parameter; read as a regular expression it    *)
(* is a capturing group of one or more non-slash characters.               *)
(***************************************************************************)
EXTENDS Integers, Sequences, FiniteSets, TLC

VARIABLES kind, prefix, baseRoutes, enrichedRoutes, defaultHandlers, regs, disp,
          built, construction, events, subscriptions, returned, twinRun,
          message, listener, held, optionObjects, middleware

vars == <<kind, prefix, baseRoutes, enrichedRoutes, defaultHandlers, regs, disp,
          built, construction, events, subscriptions, returned, twinRun,
          message, listener, held, optionObjects, middleware>>

\* what lives apart from the router and its calls
apart == <<message, listener, held, optionObjects, middleware>>

\* what the route registrations and the dispatch leave alone
others == <<built, construction, events, subscriptions, returned, twinRun, apart>>

(***************************************************************************)
(* Bounds of the model.                                                    *)
(***************************************************************************)
MaxRoutes == 2
MaxGlobals == 3
MaxHandlers == 2
MaxWrites == 2

(***************************************************************************)
(* Strings and regular expressions.                                        *)
(***************************************************************************)
\* the value undefined
Undefined == "undefined"

SP == " "
SL == "/"
COLON == ":"
WordChars == {"a", "b", "p", "x", "y"}

\* FIND_ROUTE_REGEX.source, the text put in place of each ":name"
GROUP == "([^/]+)"

\* The three characters "(a)" written in a path.  #addRoute puts the path
\* into the key as it is and new RegExp(key) reads them as a capturing group
\* that matches the character a.
LGROUP == "(a)"

Methods == {"GET", "POST"}

Range(f) == {f[x] : x \in DOMAIN f}

\* the string s from position i (1-based) to its end
Drop(s, i) == SubSeq(s, i, Len(s))

\* length of the longest run of tokens of s, starting at position i, that
\* satisfy \w
RECURSIVE WordRun(_, _)
WordRun(s, i) ==
  IF i <= Len(s) /\ s[i] \in WordChars THEN 1 + WordRun(s, i + 1) ELSE 0

\* key.match(ROUTE_PARAM_REGEX): the matches of /:(\w+)/g in key, left to
\* right, each without its leading ":" (paramether.slice(1))
RECURSIVE ParamNamesFrom(_, _)
ParamNamesFrom(key, i) ==
  IF i > Len(key) THEN <<>>
  ELSE IF key[i] = COLON /\ WordRun(key, i + 1) > 0
       THEN <<SubSeq(key, i + 1, i + WordRun(key, i + 1))>>
              \o ParamNamesFrom(key, i + 1 + WordRun(key, i + 1))
       ELSE ParamNamesFrom(key, i + 1)

ParamNames(key) == ParamNamesFrom(key, 1)

\* key.replaceAll(ROUTE_PARAM_REGEX, FIND_ROUTE_REGEX.source)
RECURSIVE ReplaceParamsFrom(_, _)
ReplaceParamsFrom(key, i) ==
  IF i > Len(key) THEN <<>>
  ELSE IF key[i] = COLON /\ WordRun(key, i + 1) > 0
       THEN <<GROUP>> \o ReplaceParamsFrom(key, i + 1 + WordRun(key, i + 1))
       ELSE <<key[i]>> \o ReplaceParamsFrom(key, i + 1)

ReplaceParams(key) == ReplaceParamsFrom(key, 1)

\* length of the longest run of non-slash tokens of s starting at i
RECURSIVE NonSlashRun(_, _)
NonSlashRun(s, i) ==
  IF i <= Len(s) /\ s[i] # SL THEN 1 + NonSlashRun(s, i + 1) ELSE 0

NoMatch == [ok |-> FALSE, caps |-> <<>>, end |-> 0]

\* The backtracking match of the pattern pat from its position pi against s
\* from position si: the first success in the engine's order of preference
\* (a group is greedy: the longest capture is tried first).  `end` is the
\* position after the last token consumed.  With anchored = TRUE the match
\* must also consume s to its end (a pattern written ^...$).
RECURSIVE MatchHere(_, _, _, _, _), TryGroup(_, _, _, _, _, _)
MatchHere(pat, pi, s, si, anchored) ==
  IF pi > Len(pat)
  THEN IF anchored /\ si <= Len(s) THEN NoMatch
       ELSE [ok |-> TRUE, caps |-> <<>>, end |-> si]
  ELSE IF pat[pi] = GROUP
       THEN TryGroup(pat, pi, s, si, NonSlashRun(s, si), anchored)
       ELSE IF pat[pi] = LGROUP
       THEN IF si <= Len(s) /\ s[si] = "a"
            THEN TryGroup(pat, pi, s, si, 1, anchored)
            ELSE NoMatch
       ELSE IF si <= Len(s) /\ s[si] = pat[pi]
            THEN MatchHere(pat, pi + 1, s, si + 1, anchored)
            ELSE NoMatch

TryGroup(pat, pi, s, si, n, anchored) ==
  IF n < 1 THEN NoMatch
  ELSE LET rest == MatchHere(pat, pi + 1, s, si + n, anchored)
       IN  IF rest.ok
           THEN [ok |-> TRUE,
                 caps |-> <<SubSeq(s, si, si + n - 1)>> \o rest.caps,
                 end |-> rest.end]
           ELSE TryGroup(pat, pi, s, si, n - 1, anchored)

\* new RegExp(pat).exec(s): the leftmost match, tried from every start
\* position in turn (the pattern carries no ^ and no $)
RECURSIVE ExecFrom(_, _, _)
ExecFrom(pat, s, start) ==
  IF start > Len(s) + 1 THEN NoMatch
  ELSE LET m == MatchHere(pat, 1, s, start, FALSE)
       IN  IF m.ok THEN m ELSE ExecFrom(pat, s, start + 1)

RegExpExec(pat, s) == ExecFrom(pat, s, 1)

\* new RegExp(pat).test(s)
RegExpTest(pat, s) == RegExpExec(pat, s).ok

\* what a match of the whole string would be: the pattern read as ^pat$
FullMatch(pat, s) == MatchHere(pat, 1, s, 1, TRUE)

\* r.split(' ')[1]: the part of a key between its first and second space
\* (undefined, which RegExp reads as the empty pattern, when there is none)
RECURSIVE UpToSpace(_, _)
UpToSpace(s, i) ==
  IF i > Len(s) \/ s[i] = SP THEN <<>> ELSE <<s[i]>> \o UpToSpace(s, i + 1)

SplitSpace1(key) ==
  LET first == UpToSpace(key, 1)
  IN  IF Len(first) >= Len(key) THEN <<>>
      ELSE UpToSpace(key, Len(first) + 2)

(***************************************************************************)
(* Inputs.                                                                 *)
(***************************************************************************)
\* path templates handed to get()/post()
PRoot == <<"/">>
PA == <<"/", "a">>
PAB == <<"/", "a", "/", "b">>
PX == <<"/", ":", "x">>
PXY == <<"/", ":", "x", "/", ":", "y">>
PXX == <<"/", ":", "x", "/", ":", "x">>
Templates == {PRoot, PA, PAB, PX, PXY, PXX}

\* request.url values
Urls == {<<"/">>, <<"/", "a">>, <<"/", "a", "/", "b">>, <<"/", "b">>,
         <<"/", "a", "b">>, <<"/", "b", "/", "a">>, <<"/", "p", "/", "a">>}

Prefixes == {<<>>, <<"/", "p">>}

Kinds == {"Router", "Http2Router"}

\* What one invocation of a handler does before its promise settles:
\*   next     calls next()                 end    writes and ends the response
\*   omit     returns without doing either nextErr calls next(error)
\*   throw    throws, or returns a promise that rejects
Behaviours == {"next", "end", "omit", "nextErr", "throw"}

\* a handler that calls next(error) and next() in the same invocation, in
\* either order
BothWays == {"nextErrNext", "nextNextErr"}

CallsNext(b) == b \in {"next"} \cup BothWays
CallsNextError(b) == b \in {"nextErr"} \cup BothWays
EndsResponse(b) == b = "end"
Throws(b) == b = "throw"

\* Handlers are told apart by where they were registered: <<0, i>> is the
\* i-th handler given to use(), <<n, j>> the j-th handler of the n-th route
\* registration.  The error a handler creates carries the handler's id.
GlobalHandler(i) == <<0, i>>
RouteHandlers(n, count) == [j \in 1..count |-> <<n, j>>]
IsGlobal(h) == h[1] = 0

\* the TypeError raised by calling undefined as a function
TypeError == <<-1, 0>>

(***************************************************************************)
(* Route table (Map with insertion order).                                 *)
(***************************************************************************)
HasKey(m, key) == \E i \in DOMAIN m : m[i].key = key

\* a getter that hands out the table itself
TheMapItself(of, table) == [of |-> of, own |-> FALSE, entries |-> table]

\* a table that takes every entry as a new one
MapSetAppend(m, entry) == Append(m, entry)

\* a merge that sets nothing
SetNone(m, entries) == m

\* a table that keeps the value a key already has
MapSetIfAbsent(m, entry) == IF HasKey(m, entry.key) THEN m ELSE Append(m, entry)

\* Map.prototype.set: a new key goes last, an existing key keeps its place
\* and gets the new value
\* a set() that would move an overwritten key behind every other key
MapSetLast(m, entry) ==
  Append(SelectSeq(m, LAMBDA e : e.key # entry.key), entry)

MapSet(m, entry) ==
  IF HasKey(m, entry.key)
  THEN [i \in DOMAIN m |-> IF m[i].key = entry.key THEN entry ELSE m[i]]
  ELSE Append(m, entry)

\* the registration key built by #addRoute
ParsedRoute(method, pfx, path) ==
  <<method, SP>> \o pfx \o (IF path = <<"/">> THEN <<>> ELSE path)

\* #parse(url, handlers)[0]: the compiled key and its enriched handler
Parse(key, handlers) ==
  IF ParamNames(key) # <<>>
  THEN [key |-> ReplaceParams(key), handlers |-> handlers,
        params |-> ParamNames(key)]
  ELSE [key |-> key, handlers |-> handlers, params |-> <<>>]

\* enrichedHandler.params[index] as a property key: past the end of the
\* array it is undefined, which names the property "undefined"
ParamNameAt(names, k) == IF k \in DOMAIN names THEN names[k] ELSE <<Undefined>>

\* matches.slice(1).reduce(...): captured value i goes under params[i]; a
\* later assignment to the same name replaces the earlier one
RECURSIVE BindParamsFromRight(_, _, _)
BindParamsFromRight(names, caps, k) ==
  IF k = 0 THEN <<>>
  ELSE (ParamNameAt(names, k) :> caps[Len(caps) - k + 1])
         @@ BindParamsFromRight(names, caps, k - 1)

RECURSIVE BindParams(_, _, _)
BindParams(names, caps, k) ==
  IF k = 0 THEN <<>>
  ELSE (ParamNameAt(names, k) :> caps[k]) @@ BindParams(names, caps, k - 1)

NotFound == [found |-> FALSE, handlers |-> <<>>, params |-> <<>>]

\* a resolver that keeps the last matching entry instead of the first
RECURSIVE FindAndParseLastFrom(_, _, _)
FindAndParseLastFrom(routes, url, i) ==
  IF i < 1 THEN NotFound
  ELSE LET matches == RegExpExec(routes[i].key, url)
       IN  IF ~matches.ok THEN FindAndParseLastFrom(routes, url, i - 1)
           ELSE [found |-> TRUE, handlers |-> routes[i].handlers,
                 params |-> BindParams(routes[i].params, matches.caps,
                                       Len(matches.caps))]

FindAndParseLastMatch(routes, url) == FindAndParseLastFrom(routes, url, Len(routes))

\* #findAndParse: the first entry, in insertion order, whose key matches
RECURSIVE FindAndParseFrom(_, _, _)
FindAndParseFrom(routes, url, i) ==
  IF i > Len(routes) THEN NotFound
  ELSE LET matches == RegExpExec(routes[i].key, url)
       IN  IF ~matches.ok THEN FindAndParseFrom(routes, url, i + 1)
           ELSE [found |-> TRUE, handlers |-> routes[i].handlers,
                 params |-> BindParams(routes[i].params, matches.caps,
                                       Len(matches.caps))]

FindAndParse(routes, url) == FindAndParseFrom(routes, url, 1)

\* the same test made with the whole key, method included
ExistsWithSameKey(routes, url) ==
  \E i \in DOMAIN routes : RegExpTest(routes[i].key, url)

\* #existsWithAnotherMethod
ExistsWithAnotherMethod(routes, url) ==
  \E i \in DOMAIN routes : RegExpTest(SplitSpace1(routes[i].key), url)

\* `${request.method?.toUpperCase()} ${request.url}`
SearchUrl(method, url) == <<method, SP>> \o url

(***************************************************************************)
(* State.                                                                  *)
(*   kind, prefix       the class of the router and its #prefix            *)
(*   baseRoutes         #baseRoutes: entries [key, handlers]               *)
(*   enrichedRoutes     #enrichedRoutes: entries [key, handlers, params]   *)
(*   defaultHandlers    #defaultHandlers                                   *)
(*   regs               the calls of #addRoute made so far, in order, each *)
(*                      with the key and the pattern it was stored under   *)
(*   disp[d]            the executeHandler call d: its locals, the         *)
(*                      request and response it was given, and what it did *)
(*                      (`steps`: the events emitted and the calls made on *)
(*                      the response, in the order they happened;          *)
(*                      `late`: the calls of next made by handlers whose   *)
(*                      promise had settled)                               *)
(*   built              the routers constructed before this one, as they   *)
(*                      were left                                          *)
(*   construction       the constructor call that made this router: its    *)
(*                      arguments, how it ended, the routers it merged and *)
(*                      the routers given to use() since                   *)
(*   events             #events: whether it holds an array, and the array  *)
(*   subscriptions      the subscriptions the EventEmitter base holds      *)
(*   returned           the last call of the listener interface and how it *)
(*                      ended                                              *)
(*   twinRun            the executeHandler call made on the router of the  *)
(*                      other class that was given the same registrations  *)
(*   message            an instance of the Request / Http2Request class:   *)
(*                      its #ctx, whether #ctx was frozen, and the last    *)
(*                      call made on it                                    *)
(*   listener           the request listener of the server around the     *)
(*                      executeHandler call: where it is, how its promise  *)
(*                      settled and the error body it wrote                *)
(*   held               the map that the last call of the `routes` or      *)
(*                      `parsedRoutes` getter returned, as its caller has  *)
(*                      left it                                            *)
(*   optionObjects      the DEFAULT_OPTIONS object of the module, and for  *)
(*                      every constructor call given an options object:    *)
(*                      the class, the object and what #options refers to  *)
(*   middleware         #defaultHandlers and the subscriptions of the      *)
(*                      routers of `built`, in the specifications that     *)
(*                      look at what a merge does with them                *)
(***************************************************************************)
Dispatches == {1}

\* #events as the class body leaves it: declared without an initialiser, so
\* it holds undefined and no array
Unassigned == [defined |-> FALSE, list |-> <<>>]

\* the value getContext gives for a key it does not find
Null == "null"

IdleDispatch ==
  [pc |-> "idle", method |-> "", url |-> <<>>, found |-> FALSE,
   handlers |-> <<>>, params |-> <<>>, i |-> 0,
   handleNextRoute |-> FALSE, handleRoutes |-> FALSE, thrown |-> <<>>,
   log |-> <<>>, events |-> <<>>,
   statusCode |-> 200, contentType |-> "", written |-> 0, ended |-> 0,
   outcome |-> "pending", error |-> <<>>,
   context |-> <<>>, contextCall |-> <<>>, obtained |-> FALSE,
   responseCall |-> <<>>, steps |-> <<>>, late |-> <<>>]

\* new Router(prefix) for a prefix that is not empty, new Router('', {})
\* for the empty one
ByPrefix(pfx) ==
  [x |-> "string", options |-> (pfx = <<>>), threw |-> "none", merged |-> {},
   used |-> {}]

\* the fields as the class body declares them, before any constructor or
\* method has run on them
Fields ==
  /\ defaultHandlers = <<>>
  /\ events = Unassigned
  /\ subscriptions = <<>>
  /\ returned = <<>>

\* An options object: a property is <<value>>, or <<>> when the object does
\* not have it.
\* const DEFAULT_OPTIONS = { verbose: true, strict: false }
DefaultOptions == [verbose |-> <<TRUE>>, strict |-> <<FALSE>>]

\* the module as it is loaded: no router constructed yet
ModuleLoaded == [DEFAULT_OPTIONS |-> DefaultOptions, routers |-> <<>>]

\* new Request(socket, params): this.#ctx = {}
NewRequest == [ctx |-> <<>>, frozen |-> FALSE, call |-> <<>>]

\* the request listener before executeHandler has settled
Listening == [pc |-> "await", outcome |-> "pending", error |-> "none", body |-> <<>>]

Init ==
  /\ message = NewRequest
  /\ listener = Listening
  /\ held = <<>>
  /\ optionObjects = ModuleLoaded
  /\ middleware = <<>>
  /\ kind \in Kinds
  /\ prefix \in Prefixes
  /\ baseRoutes = <<>>
  /\ enrichedRoutes = <<>>
  /\ Fields
  /\ regs = <<>>
  /\ disp = [d \in Dispatches |-> IdleDispatch]
  /\ built = <<>>
  /\ construction = ByPrefix(prefix)
  /\ twinRun = <<>>

\* routes are registered before the router serves (no dispatch has begun)
Setup == \A d \in DOMAIN disp : disp[d].pc = "idle"

\* the handlers of a dispatch that were invoked and have not settled
Running(r) == {k \in DOMAIN r.log : r.log[k].b = "running"}

(***************************************************************************)
(* Registration.                                                           *)
(***************************************************************************)
\* #addRoute(method, path, handlers), reached through get(), post(), ...
\* The handlers of the n-th call are <<n, 1>> .. <<n, count>>.
AddRoute(method, path, count) ==
  LET n == Len(regs) + 1
      handlers == RouteHandlers(n, count)
      parsedRoute == ParsedRoute(method, prefix, path)
  IN  /\ Setup
      /\ baseRoutes' = MapSet(baseRoutes, [key |-> parsedRoute, handlers |-> handlers])
      /\ enrichedRoutes' = MapSet(enrichedRoutes, Parse(parsedRoute, handlers))
      /\ regs' = Append(regs, [method |-> method, path |-> path, key |-> parsedRoute,
                               pattern |-> Parse(parsedRoute, handlers).key,
                               handlers |-> handlers])
      /\ UNCHANGED <<kind, prefix, defaultHandlers, disp, others>>

\* use(handler) with a plain handler: it is pushed onto #defaultHandlers
Use ==
  /\ Setup
  /\ defaultHandlers' = Append(defaultHandlers, GlobalHandler(Len(defaultHandlers) + 1))
  /\ UNCHANGED <<kind, prefix, baseRoutes, enrichedRoutes, regs, disp, others>>

(***************************************************************************)
(* executeHandler.                                                         *)
(***************************************************************************)
\* this.emit(name, payload); wrapped tells an ErrorEvent from a bare error
Emit(r, name, target, wrapped) ==
  [r EXCEPT !.events = Append(@, [name |-> name, target |-> target, wrapped |-> wrapped]),
            !.steps = Append(@, name)]

\* response.writeHead(code, { 'Content-Type': type })
WriteHead(r, code, type) ==
  [r EXCEPT !.statusCode = code, !.contentType = type, !.steps = Append(@, "writeHead")]

\* response.end()
End(r) == [r EXCEPT !.ended = @ + 1, !.steps = Append(@, "end")]

\* return (or fall off the end of the try block): the promise resolves
Return(r) == [r EXCEPT !.pc = "done", !.outcome = "resolved"]

\* the 405 branch: emit, writeHead(405, text/plain), end, return
Reply405(r, searchUrl) ==
  Return(End(WriteHead(Emit(r, "405", searchUrl, TRUE), 405, "text/plain")))

\* a 404 branch that answers first and emits afterwards
Reply404ThenEmit(r, searchUrl) ==
  Return(Emit(End(WriteHead(r, 404, "text/plain")), "404", searchUrl, TRUE))

\* the 404 branch: emit, writeHead(404, text/plain), end, return
Reply404(r, searchUrl) ==
  Return(End(WriteHead(Emit(r, "404", searchUrl, TRUE), 404, "text/plain")))

\* The call itself, up to the first handler: build the search line, resolve
\* it, then either enter the chain or answer 405 / 404.
\* a dispatch that would leave the context store of the request it is given
\* as it finds it
KeptRequest(r, method, url) ==
  [IdleDispatch EXCEPT !.method = method, !.url = url, !.context = r.context]

\* #extendNativeObjects(request, response): Object.assign(request, { context:
\* {}, params: {}, ... }) puts a new empty store and new empty params on the
\* request it is given, whatever that request held
FreshRequest(r, method, url) ==
  [IdleDispatch EXCEPT !.method = method, !.url = url]

ExecuteHandler(d, method, url) ==
  LET searchUrl == SearchUrl(method, url)
      maybeHandlers == FindAndParse(enrichedRoutes, searchUrl)
      fresh == FreshRequest(disp[d], method, url)
  IN  /\ disp[d].pc \in {"idle", "done"}
      /\ disp' = [disp EXCEPT ![d] =
           IF maybeHandlers.found
           THEN [fresh EXCEPT !.pc = "globalLoop", !.found = TRUE,
                              !.handlers = maybeHandlers.handlers,
                              !.params = maybeHandlers.params, !.i = 1]
           ELSE IF ExistsWithAnotherMethod(enrichedRoutes, searchUrl)
                THEN Reply405(fresh, searchUrl)
                ELSE Reply404(fresh, searchUrl)]
      /\ UNCHANGED <<kind, prefix, baseRoutes, enrichedRoutes, defaultHandlers, regs, others>>

\* handler(extendedRequest, extendedResponse, next) is called
Invoke(r, h, pc) ==
  [r EXCEPT !.log = Append(@, [h |-> h, b |-> "running"]), !.pc = pc]

\* for(let i = 0; i < defaultHandlers.length - 1; i++): the loop head and,
\* inside it, the call of handler i with a fresh handleNextRoute = false
GlobalLoop(d) ==
  /\ disp[d].pc = "globalLoop"
  /\ disp' = [disp EXCEPT ![d] =
       IF disp[d].i < Len(defaultHandlers)
       THEN Invoke([disp[d] EXCEPT !.handleNextRoute = FALSE],
                   defaultHandlers[disp[d].i], "awaitGlobal")
       ELSE [disp[d] EXCEPT !.pc = "lastGlobal"]]
  /\ UNCHANGED <<kind, prefix, baseRoutes, enrichedRoutes, defaultHandlers, regs, others>>

\* Router: if(defaultHandlers.length - 1 > -1) call the last one, else
\* handleRoutes = true.  Http2Router calls defaultHandlers[length - 1]
\* without the test.
LastGlobalGuarded == kind = "Router"

LastGlobal(d) ==
  /\ disp[d].pc = "lastGlobal"
  /\ disp' = [disp EXCEPT ![d] =
       IF Len(defaultHandlers) >= 1
       THEN Invoke([disp[d] EXCEPT !.handleRoutes = FALSE],
                   defaultHandlers[Len(defaultHandlers)], "awaitLast")
       ELSE IF LastGlobalGuarded
            THEN [disp[d] EXCEPT !.handleRoutes = TRUE, !.pc = "routeLoop", !.i = 1]
            ELSE [disp[d] EXCEPT !.handleRoutes = FALSE, !.thrown = TypeError,
                                 !.pc = "catch"]]
  /\ UNCHANGED <<kind, prefix, baseRoutes, enrichedRoutes, defaultHandlers, regs, others>>

\* for(const handler of handlers): the loop head and the call of the handler
RouteLoop(d) ==
  /\ disp[d].pc = "routeLoop"
  /\ disp' = [disp EXCEPT ![d] =
       IF disp[d].i <= Len(disp[d].handlers)
       THEN Invoke([disp[d] EXCEPT !.handleNextRoute = FALSE],
                   disp[d].handlers[disp[d].i], "awaitRoute")
       ELSE Return(disp[d])]
  /\ UNCHANGED <<kind, prefix, baseRoutes, enrichedRoutes, defaultHandlers, regs, others>>

\* The handler invoked at log position k runs to the end with behaviour b
\* and its promise settles.  next() was built for the iteration that made
\* the call: it sets that iteration's flag (handleRoutes for the last global
\* handler, handleNextRoute in the two loops); next(error) emits `error`
\* with the bare error.
HandlerEffects(r, k, b) ==
  LET h == r.log[k].h
      called == IF CallsNext(b) /\ k = Len(r.log)
                THEN IF r.pc = "awaitLast"
                     THEN [r EXCEPT !.handleRoutes = TRUE]
                     ELSE [r EXCEPT !.handleNextRoute = TRUE]
                ELSE r
      signalled == IF CallsNextError(b) THEN Emit(called, "error", h, FALSE)
                   ELSE called
      answered == IF EndsResponse(b)
                  THEN End([signalled EXCEPT !.written = @ + 1,
                                             !.steps = Append(@, "write")])
                  ELSE signalled
  IN  [answered EXCEPT !.log[k].b = b,
                       !.thrown = IF Throws(b) THEN h ELSE @]

HandlerSettles(d, b) ==
  /\ disp[d].pc \in {"awaitGlobal", "awaitLast", "awaitRoute"}
  /\ \E k \in Running(disp[d]) :
       disp' = [disp EXCEPT ![d] = HandlerEffects(disp[d], k, b)]
  /\ UNCHANGED <<kind, prefix, baseRoutes, enrichedRoutes, defaultHandlers, regs, others>>

\* a call that is not awaited: the function goes on at once
NotAwaited(r) == TRUE

\* await handler(...): the function goes on once the handler's promise has
\* settled
AwaitSettled(r) == Running(r) = {}

\* if(!handleNextRoute) break; in the loop over the global handlers
AfterGlobal(r) ==
  IF ~r.handleNextRoute THEN [r EXCEPT !.pc = "lastGlobal"]
  ELSE [r EXCEPT !.i = @ + 1, !.pc = "globalLoop"]

\* if(!handleRoutes) return;
AfterLast(r) ==
  IF ~r.handleRoutes THEN Return(r)
  ELSE [r EXCEPT !.i = 1, !.pc = "routeLoop"]

\* if(!handleNextRoute) break; in the loop over the route handlers
AfterRoute(r) ==
  IF ~r.handleNextRoute THEN Return(r)
  ELSE [r EXCEPT !.i = @ + 1, !.pc = "routeLoop"]

\* the continuation of an await: a rejection is thrown into the try block
Resume(d) ==
  /\ disp[d].pc \in {"awaitGlobal", "awaitLast", "awaitRoute"}
  /\ AwaitSettled(disp[d])
  /\ disp' = [disp EXCEPT ![d] =
       IF disp[d].thrown # <<>> THEN [disp[d] EXCEPT !.pc = "catch"]
       ELSE IF disp[d].pc = "awaitGlobal" THEN AfterGlobal(disp[d])
       ELSE IF disp[d].pc = "awaitLast" THEN AfterLast(disp[d])
       ELSE AfterRoute(disp[d])]
  /\ UNCHANGED <<kind, prefix, baseRoutes, enrichedRoutes, defaultHandlers, regs, others>>

\* a catch block that rethrows without emitting
CatchSilent(r) == r

\* catch (err) { this.emit('error', new ErrorEvent(err));
CatchEmit(r) == Emit(r, "error", r.thrown, TRUE)

Catch(d) ==
  /\ disp[d].pc = "catch"
  /\ disp' = [disp EXCEPT ![d] = [CatchEmit(disp[d]) EXCEPT !.pc = "rethrow"]]
  /\ UNCHANGED <<kind, prefix, baseRoutes, enrichedRoutes, defaultHandlers, regs, others>>

\* throw err; } finally { ... }: the promise rejects with err
Rethrow(d) ==
  /\ disp[d].pc = "rethrow"
  /\ disp' = [disp EXCEPT ![d] =
       [disp[d] EXCEPT !.pc = "done", !.outcome = "rejected", !.error = disp[d].thrown]]
  /\ UNCHANGED <<kind, prefix, baseRoutes, enrichedRoutes, defaultHandlers, regs, others>>

\* one step of executeHandler after the call
Step(d) ==
  \/ GlobalLoop(d)
  \/ LastGlobal(d)
  \/ RouteLoop(d)
  \/ Resume(d)
  \/ Catch(d)
  \/ Rethrow(d)

(***************************************************************************)
(* Spec: a Router, with or without prefix, whose table holds up to         *)
(* MaxRoutes registrations over every template and method, one handler per *)
(* route, no global handler.                                               *)
(***************************************************************************)
InitRoutes == Init /\ kind = "Router"

Next ==
  \/ \E m \in Methods, p \in Templates : Len(regs) < MaxRoutes /\ AddRoute(m, p, 1)
  \/ \E d \in Dispatches, m \in Methods, u \in Urls :
       disp[d].pc = "idle" /\ ExecuteHandler(d, m, u)
  \/ \E d \in Dispatches : Step(d)
  \/ \E d \in Dispatches, b \in {"next", "end", "throw"} : HandlerSettles(d, b)

Spec == InitRoutes /\ [][Next]_vars

(***************************************************************************)
(* ChainSpec: a Router or Http2Router without prefix, one route of up to   *)
(* MaxHandlers handlers behind up to MaxGlobals global handlers, every     *)
(* handler free in what it does; calls of executeHandler follow each       *)
(* other.                                                                  *)
(***************************************************************************)
ChainUrls == {<<"/", "a">>, <<"/", "b">>}

InitChain == Init /\ prefix = <<>>

NextChain ==
  \/ \E c \in 1..MaxHandlers : Len(regs) < 1 /\ AddRoute("POST", PA, c)
  \/ Len(defaultHandlers) < MaxGlobals /\ Use
  \/ \E d \in Dispatches, m \in Methods, u \in ChainUrls : ExecuteHandler(d, m, u)
  \/ \E d \in Dispatches : Step(d)
  \/ \E d \in Dispatches, b \in Behaviours : HandlerSettles(d, b)

ChainSpec == InitChain /\ [][NextChain]_vars

\* the handlers' promises settle and the event loop runs every continuation
FairChainSpec ==
  /\ ChainSpec
  /\ \A d \in Dispatches :
       /\ WF_vars(Step(d))
       /\ WF_vars(\E b \in Behaviours : HandlerSettles(d, b))

(***************************************************************************)
(* Vocabulary of the properties.                                           *)
(***************************************************************************)
MinOf(S) == CHOOSE x \in S : \A y \in S : x <= y
MaxOf(S) == CHOOSE x \in S : \A y \in S : x >= y

\* the request line of a dispatch
Line(r) == SearchUrl(r.method, r.url)

\* the pattern the n-th registration compiles to
RegCompiledKey(n) == regs[n].pattern

\* the registrations whose compiled pattern matches the line somewhere, as
\* the resolver matches, and those whose pattern matches the whole line
Matching(line) == {n \in DOMAIN regs : RegExpTest(RegCompiledKey(n), line)}
\* (a root route, whose key ends after the prefix, stands for "/" when the
\* prefix is empty)
RegPathPattern(n) ==
  IF Drop(RegCompiledKey(n), 3) = <<>> THEN <<SL>> ELSE Drop(RegCompiledKey(n), 3)
FullMatching(line) ==
  {n \in DOMAIN regs : FullMatch(<<regs[n].method, SP>> \o RegPathPattern(n), line).ok}

\* the templates (registration keys) among a set of registrations
TemplatesOf(N) == {regs[n].key : n \in N}

\* the handler list a template holds: the one of its latest registration
HandlersOfTemplate(key) == regs[MaxOf({n \in DOMAIN regs : regs[n].key = key})].handlers

\* the latest registration that compiled to the same pattern as n
LatestUnderPattern(n) ==
  MaxOf({m \in DOMAIN regs : RegCompiledKey(m) = RegCompiledKey(n)})

RouteHandlersInvoked(r) == {r.log[k].h : k \in {j \in DOMAIN r.log : ~IsGlobal(r.log[j].h)}}

C2_FullLineMatchOnly ==
  \A d \in Dispatches :
    LET r == disp[d]
        F == FullMatching(Line(r))
    IN  (r.pc # "idle" /\ Cardinality(TemplatesOf(F)) = 1) =>
          LET expected == HandlersOfTemplate(regs[MinOf(F)].key)
          IN  /\ r.found
              /\ r.handlers = expected
              /\ RouteHandlersInvoked(r) \subseteq Range(expected)

\* the segments of a path: what stands after each "/"
RECURSIVE SegmentsFrom(_, _)
SegmentsFrom(s, i) ==
  IF i > Len(s) THEN <<>>
  ELSE IF s[i] = SL
       THEN <<SubSeq(s, i + 1, i + NonSlashRun(s, i + 1))>>
              \o SegmentsFrom(s, i + 1 + NonSlashRun(s, i + 1))
       ELSE SegmentsFrom(s, i + 1)

Segments(s) == SegmentsFrom(s, 1)

\* the registration a dispatch resolved to (its handlers carry the number)
ResolvedReg(r) == r.handlers[1][1]

\* the places of the ":name" segments among the segments of a template
ParamPlaces(tsegs) ==
  SelectSeq([j \in 1..Len(tsegs) |-> j],
            LAMBDA j : tsegs[j] # <<>> /\ tsegs[j][1] = COLON)

PathUnknown(r) ==
  \A n \in DOMAIN regs : ~FullMatch(RegPathPattern(n), r.url).ok

\* C4 as stated: a request whose path no registered path pattern matches
\* under any method is answered 404, text/plain, with an empty body, the
\* response ended, also when a root route is registered.
C4_UnknownPathIs404 ==
  \A d \in Dispatches :
    LET r == disp[d]
    IN  (r.pc = "done" /\ PathUnknown(r)) =>
          /\ r.statusCode = 404 /\ r.contentType = "text/plain"
          /\ r.written = 0 /\ r.ended = 1 /\ r.log = <<>>

\* the resolver finds nothing for the line
ResolvesToNothing(r) ==
  \A i \in DOMAIN enrichedRoutes : ~RegExpTest(enrichedRoutes[i].key, Line(r))

\* a registration under another method whose path pattern matches the path
AllowedUnderAnotherMethod(r) ==
  \E n \in DOMAIN regs :
    regs[n].method # r.method /\ FullMatch(RegPathPattern(n), r.url).ok

\* C5: a request that resolves to no route although a path pattern
\* registered under a different method matches its path is answered 405,
\* text/plain, the response ended once, no handler invoked.
C5_OtherMethodIs405 ==
  \A d \in Dispatches :
    LET r == disp[d]
    IN  (r.pc # "idle" /\ ResolvesToNothing(r) /\ AllowedUnderAnotherMethod(r)) =>
          /\ r.pc = "done" /\ r.outcome = "resolved"
          /\ r.statusCode = 405 /\ r.contentType = "text/plain"
          /\ r.ended = 1 /\ r.log = <<>>
          /\ \E k \in DOMAIN r.events : r.events[k].name = "405"

\* C5 witness: POST /a is all that is registered and GET /a was answered
C5_Witness ==
  \E d \in Dispatches :
    LET r == disp[d]
    IN  /\ r.pc = "done" /\ r.method = "GET" /\ r.url = <<"/", "a">>
        /\ ResolvesToNothing(r) /\ AllowedUnderAnotherMethod(r)
        /\ r.statusCode = 405

(***************************************************************************)
(* The handler chain (checked under ChainSpec).                            *)
(***************************************************************************)
\* registration order of the chain: the global handlers in the order of
\* use(), then the route handlers in the order given to the route
ChainBefore(g, h) ==
  \/ IsGlobal(g) /\ ~IsGlobal(h)
  \/ IsGlobal(g) = IsGlobal(h) /\ g[1] = h[1] /\ g[2] < h[2]

\* the `error` events of a dispatch that carry the error e
ErrorEventsFor(r, e) ==
  {k \in DOMAIN r.events : r.events[k].name = "error" /\ r.events[k].target = e}

\* C6: within one dispatch the handlers are invoked in registration order,
\* every global handler before any route handler, each only after the one
\* before it has settled: at most one handler is running, and it is the one
\* invoked last.
C6_OneAtATimeInOrder ==
  \A d \in Dispatches :
    LET r == disp[d]
    IN  /\ Cardinality(Running(r)) <= 1
        /\ \A k \in Running(r) : k = Len(r.log)
        /\ \A k, l \in DOMAIN r.log : k < l => ChainBefore(r.log[k].h, r.log[l].h)
        /\ \A k \in DOMAIN r.log :
             r.log[k].h \in Range(defaultHandlers) \cup Range(r.handlers)

\* C6 witness: two global handlers have settled and a route handler is
\* running
C6_Witness ==
  \E d \in Dispatches :
    LET r == disp[d]
    IN  /\ Len(r.log) = 3
        /\ IsGlobal(r.log[1].h) /\ IsGlobal(r.log[2].h) /\ ~IsGlobal(r.log[3].h)
        /\ Running(r) = {3}

\* C7 as stated: after a handler, global or route, called next(error) and
\* not next(), no later handler of the chain is invoked, `error` is emitted
\* exactly once with that error, and executeHandler resolves.
C7_NextErrorStopsChain ==
  \A d \in Dispatches :
    LET r == disp[d]
    IN  \A k \in DOMAIN r.log :
          CallsNextError(r.log[k].b) =>
            /\ k = Len(r.log)
            /\ Cardinality(ErrorEventsFor(r, r.log[k].h)) = 1
            /\ r.outcome # "rejected"
            /\ r.pc = "done" => r.outcome = "resolved"

\* C8 as stated: after a handler, global or route, settled without calling
\* next(), no later handler is invoked, no `error` event is emitted, the
\* engine does not end the response, and executeHandler resolves.
C8_StopByOmission ==
  \A d \in Dispatches :
    LET r == disp[d]
    IN  \A k \in DOMAIN r.log :
          r.log[k].b = "omit" =>
            /\ k = Len(r.log)
            /\ \A j \in DOMAIN r.events : r.events[j].name # "error"
            /\ r.ended = Cardinality({j \in DOMAIN r.log : EndsResponse(r.log[j].b)})
            /\ r.outcome # "rejected"
            /\ r.pc = "done" => r.outcome = "resolved"

\* C9: when a handler throws or its promise rejects with e, no later handler
\* is invoked, executeHandler ends rejected with that same e, and by the
\* time it is rejected the `error` event for e has been emitted (once, as
\* an ErrorEvent).
C9_ThrowRejectsAfterEvent ==
  \A d \in Dispatches :
    LET r == disp[d]
    IN  /\ \A k \in DOMAIN r.log :
             Throws(r.log[k].b) =>
               /\ k = Len(r.log)
               /\ r.thrown = r.log[k].h
               /\ r.outcome # "resolved"
               /\ r.pc = "done" => (r.outcome = "rejected" /\ r.error = r.log[k].h)
        /\ r.outcome = "rejected" =>
             /\ Cardinality(ErrorEventsFor(r, r.error)) = 1
             /\ \A k \in ErrorEventsFor(r, r.error) : r.events[k].wrapped

\* C9 witness: the second handler of the chain threw after the first called
\* next(), and the call has been rejected with its error
C9_Witness ==
  \E d \in Dispatches :
    LET r == disp[d]
    IN  /\ r.pc = "done" /\ r.outcome = "rejected"
        /\ Len(r.log) = 2 /\ r.log[1].b = "next" /\ r.log[2].b = "throw"
        /\ r.error = r.log[2].h

\* C10 as stated, on the found path: the response is left unterminated only
\* if some invoked handler neither ended it nor passed control on.
C10_UnterminatedOnlyByHandler ==
  \A d \in Dispatches :
    LET r == disp[d]
    IN  (r.pc = "done" /\ r.found /\ r.ended = 0) =>
          \E k \in DOMAIN r.log :
            ~EndsResponse(r.log[k].b) /\ ~CallsNext(r.log[k].b)

\* C10, the part about 404 and 405: the engine ends the response exactly
\* once and the call resolves.
C10_NotFoundEndsOnce ==
  \A d \in Dispatches :
    LET r == disp[d]
    IN  (r.pc # "idle" /\ ~r.found) =>
          (r.pc = "done" /\ r.ended = 1 /\ r.outcome = "resolved"
             /\ r.statusCode \in {404, 405})

\* C10, the part about settling (under FairChainSpec): every call of
\* executeHandler settles when every invoked handler settles.
C10_CallSettles ==
  \A d \in Dispatches :
    (disp[d].outcome = "pending" /\ disp[d].pc # "idle") ~> (disp[d].pc = "done")

(***************************************************************************)
(* TwinSpec: a router of one class serves a request; then the router of    *)
(* the other class, given the same registrations, serves the same request  *)
(* with every handler behaving as it did the first time.                   *)
(***************************************************************************)
OtherKind(k) == IF k = "Router" THEN "Http2Router" ELSE "Router"

\* The registrations made so far are made on a router of the other class.
\* get(), ..., use(), #addRoute and #parse have the same text in both
\* classes, so that router holds the same tables and global handlers; the
\* call that has just ended is kept as twinRun.
OnOtherClass(d) ==
  /\ disp[d].pc = "done"
  /\ twinRun = <<>>
  /\ twinRun' = <<disp[d]>>
  /\ kind' = OtherKind(kind)
  /\ disp' = [disp EXCEPT ![d] = IdleDispatch]
  /\ UNCHANGED <<prefix, baseRoutes, enrichedRoutes, defaultHandlers, regs,
                 built, construction, events, subscriptions, returned, apart>>

\* the second request is the first one again
SameRequest(m, u) ==
  IF twinRun = <<>> THEN TRUE ELSE m = twinRun[1].method /\ u = twinRun[1].url

\* the handler that is running does what it did in the first call, if it
\* was invoked there
BehavesAsBefore(d, b) ==
  IF twinRun = <<>> THEN TRUE
  ELSE \A k \in Running(disp[d]), j \in DOMAIN twinRun[1].log :
         twinRun[1].log[j].h = disp[d].log[k].h => twinRun[1].log[j].b = b

InitTwin == Init /\ prefix = <<>>

NextTwin ==
  \/ \E c \in 1..MaxHandlers :
       twinRun = <<>> /\ Len(regs) < 1 /\ AddRoute("POST", PA, c)
  \/ twinRun = <<>> /\ Len(defaultHandlers) < MaxGlobals /\ Use
  \/ \E d \in Dispatches, m \in Methods, u \in ChainUrls :
       disp[d].pc = "idle" /\ SameRequest(m, u) /\ ExecuteHandler(d, m, u)
  \/ \E d \in Dispatches : Step(d)
  \/ \E d \in Dispatches, b \in Behaviours :
       BehavesAsBefore(d, b) /\ HandlerSettles(d, b)
  \/ \E d \in Dispatches : OnOtherClass(d)

TwinSpec == InitTwin /\ [][NextTwin]_vars

\* what a call of executeHandler shows to the outside
Observed(r) ==
  [invoked |-> [k \in DOMAIN r.log |-> r.log[k].h], events |-> r.events,
   statusCode |-> r.statusCode, ended |-> r.ended,
   outcome |-> r.outcome, error |-> r.error]

\* C11 as stated: for the same registrations (global handlers included, or
\* none), the same request and the same handler behaviours, the Router and
\* the Http2Router invoke the same handlers in the same order, emit the same
\* events, write the same status and settle executeHandler the same way.
C11_SameOnBothClasses ==
  \A d \in Dispatches :
    (twinRun # <<>> /\ disp[d].pc = "done") => Observed(disp[d]) = Observed(twinRun[1])

\* C11, the part that holds: the two classes agree whenever at least one
\* global handler is registered, and on every request that resolves to no
\* route.
C11_SameWithGlobalHandlers ==
  \A d \in Dispatches :
    (twinRun # <<>> /\ disp[d].pc = "done"
       /\ (defaultHandlers # <<>> \/ ~disp[d].found))
      => Observed(disp[d]) = Observed(twinRun[1])

(***************************************************************************)
(* Re-registration (checked under Spec).                                   *)
(***************************************************************************)
\* the entries of a table stored under a key
EntriesAt(table, key) == {i \in DOMAIN table : table[i].key = key}

\* the registrations that a later registration of the same METHOD + path
\* key has replaced
Replaced == {m \in DOMAIN regs : \E n \in DOMAIN regs : n > m /\ regs[n].key = regs[m].key}

\* the latest registration of the key of registration n
LatestOfKey(n) == MaxOf({m \in DOMAIN regs : regs[m].key = regs[n].key})

\* C12: registering a METHOD + path key again replaces its handler list in
\* the raw and in the compiled table.  Each table holds one entry per key,
\* so the second registration added none; the raw entry carries the handlers
\* of the latest registration of the key; no handler of a replaced
\* registration is resolved or invoked; and a request that the resolver
\* takes to the key's compiled entry runs the handlers of the latest
\* registration only.
C12_ReRegistrationReplaces ==
  /\ Len(baseRoutes) = Cardinality({regs[n].key : n \in DOMAIN regs})
  /\ Len(enrichedRoutes) = Cardinality({regs[n].pattern : n \in DOMAIN regs})
  /\ \A n \in DOMAIN regs :
       /\ Cardinality(EntriesAt(baseRoutes, regs[n].key)) = 1
       /\ Cardinality(EntriesAt(enrichedRoutes, regs[n].pattern)) = 1
       /\ \A i \in EntriesAt(baseRoutes, regs[n].key) :
            baseRoutes[i].handlers = regs[LatestOfKey(n)].handlers
  /\ \A i \in DOMAIN enrichedRoutes, m \in Replaced :
       Range(regs[m].handlers) \cap Range(enrichedRoutes[i].handlers) = {}
  /\ \A d \in Dispatches :
       LET r == disp[d]
           M == Matching(Line(r))
       IN  /\ \A m \in Replaced :
                Range(regs[m].handlers) \cap (Range(r.handlers) \cup RouteHandlersInvoked(r)) = {}
           /\ \A n \in Replaced :
                (r.pc # "idle" /\ M # {} /\ regs[MinOf(M)].pattern = regs[n].pattern
                   /\ LatestUnderPattern(n) = LatestOfKey(n)) =>
                  /\ r.handlers = regs[LatestOfKey(n)].handlers
                  /\ RouteHandlersInvoked(r) \subseteq Range(regs[LatestOfKey(n)].handlers)

\* C12 witness: GET /a was registered twice, GET /a was served, and the
\* handler of the second registration was invoked
C12_Witness ==
  \E d \in Dispatches :
    LET r == disp[d]
    IN  /\ Len(regs) = 2 /\ regs[1].key = regs[2].key /\ regs[1].path = PA
        /\ Len(baseRoutes) = 1 /\ Len(enrichedRoutes) = 1
        /\ r.pc = "done" /\ r.url = PA /\ r.method = regs[1].method
        /\ RouteHandlersInvoked(r) = Range(regs[2].handlers)

(***************************************************************************)
(* Construction and merging of routers.                                    *)
(***************************************************************************)
MaxBuilt == 2

\* this router as another router sees it: get routes() and get
\* parsedRoutes() hand out copies of the two tables
ThisRouter ==
  [kind |-> kind, prefix |-> prefix, routes |-> baseRoutes,
   parsedRoutes |-> enrichedRoutes]

\* there is an instance to call methods on
Constructed == construction.threw = "none"

\* the routers that exist when a constructor is called: those set aside
\* and this one
Existing == IF Constructed THEN Append(built, ThisRouter) ELSE built

\* new Map(entries) and a run of Map.prototype.set calls: the entries are
\* set one after the other, in order
RECURSIVE SetAll(_, _)
SetAll(m, entries) ==
  IF entries = <<>> THEN m ELSE SetAll(MapSet(m, Head(entries)), Tail(entries))

\* rp.flatMap(router => [...router.parsedRoutes]) and the same for routes
RECURSIVE FlatParsedRoutes(_)
FlatParsedRoutes(rp) ==
  IF rp = <<>> THEN <<>>
  ELSE Existing[Head(rp)].parsedRoutes \o FlatParsedRoutes(Tail(rp))

RECURSIVE FlatRoutes(_)
FlatRoutes(rp) ==
  IF rp = <<>> THEN <<>> ELSE Existing[Head(rp)].routes \o FlatRoutes(Tail(rp))

\* The first argument of the constructor: nothing, a prefix string, an array
\* of existing routers (by their place in Existing), or an options
\* object.  The second argument is an options object or nothing.
XUndefined == [type |-> "undefined", prefix |-> <<>>, routers |-> <<>>]
XString(pfx) == [type |-> "string", prefix |-> pfx, routers |-> <<>>]
XArray(rp) == [type |-> "array", prefix |-> <<>>, routers |-> rp]
XOptions == [type |-> "options", prefix |-> <<>>, routers |-> <<>>]

\* !x : undefined and the empty string are falsy, an array and an object
\* are not
Falsy(x) == x.type = "undefined" \/ (x.type = "string" /\ x.prefix = <<>>)

\* if(!x && !options) return;  in a class that extends EventEmitter: the
\* constructor returns before super() was called, and `new` throws a
\* ReferenceError without giving an instance
ReturnsBeforeSuper(x, options) == Falsy(x) /\ ~options

\* x.every(r => r instanceof Router)
EveryInstance(rp) == \A i \in DOMAIN rp : Existing[rp[i]].kind = kind

\* how the constructor call ends
ConstructorThrows(x, options) ==
  IF ReturnsBeforeSuper(x, options) THEN "ReferenceError"
  ELSE IF x.type = "array" /\ ~EveryInstance(x.routers) THEN "TypeError"
  ELSE "none"

\* new Router(x, options) / new Http2Router(x, options), but for the class
\* and the contents of the options object.  The router built so far joins
\* the others in `built`; this router is the new one.
Constructing(x, options) ==
  LET threw == ConstructorThrows(x, options)
      merging == threw = "none" /\ x.type = "array"
  IN  /\ Setup
      /\ built' = Existing
      /\ construction' = [x |-> x.type, options |-> options, threw |-> threw,
                          merged |-> IF merging THEN Range(x.routers) ELSE {},
                          used |-> {}]
      /\ prefix' = IF threw = "none" /\ x.type = "string" THEN x.prefix ELSE <<>>
      /\ enrichedRoutes' = IF merging THEN SetAll(<<>>, FlatParsedRoutes(x.routers)) ELSE <<>>
      /\ baseRoutes' = IF merging THEN SetAll(<<>>, FlatRoutes(x.routers)) ELSE <<>>
      /\ defaultHandlers' = <<>>
      /\ events' = Unassigned
      /\ subscriptions' = <<>>
      /\ returned' = returned
      /\ UNCHANGED <<regs, disp, twinRun, message, listener, held>>

\* a constructor call of this router's class whose options object, if any,
\* is {}: Object.assign(DEFAULT_OPTIONS, {}) changes nothing
Construct(x, options) ==
  /\ Constructing(x, options)
  /\ UNCHANGED <<kind, optionObjects, middleware>>

\* the routers merged into this one, by the constructor or by use()
Merged == construction.merged \cup construction.used

\* use(router) with a router of this class: every entry of its compiled
\* table, then every entry of its raw table, is set in this router's
\* a use(router) that would also take over the router's global handlers
UseRouterWithMiddleware(i) ==
  /\ Setup
  /\ Constructed
  /\ built[i].kind = kind
  /\ enrichedRoutes' = SetAll(enrichedRoutes, built[i].parsedRoutes)
  /\ baseRoutes' = SetAll(baseRoutes, built[i].routes)
  /\ construction' = [construction EXCEPT !.used = @ \cup {i}]
  /\ defaultHandlers' = defaultHandlers \o middleware[i].defaultHandlers
  /\ UNCHANGED <<kind, prefix, regs, disp, built, events,
                 subscriptions, returned, twinRun, apart>>

UseRouter(i) ==
  /\ Setup
  /\ Constructed
  /\ built[i].kind = kind
  /\ enrichedRoutes' = SetAll(enrichedRoutes, built[i].parsedRoutes)
  /\ baseRoutes' = SetAll(baseRoutes, built[i].routes)
  /\ construction' = [construction EXCEPT !.used = @ \cup {i}]
  /\ UNCHANGED <<kind, prefix, defaultHandlers, regs, disp, built, events,
                 subscriptions, returned, twinRun, apart>>

(***************************************************************************)
(* MergeSpec: routers of one class are constructed one after the other in  *)
(* every documented way, given routes, merged with use() or through the    *)
(* constructor, and a router that others were merged into serves a         *)
(* request.  The routers that are merged hold a route each and are not     *)
(* themselves the result of a merge; a router is merged into another at    *)
(* most once.                                                              *)
(***************************************************************************)
PY == <<"/", ":", "y">>
MergeTemplates == {PA, PX, PY}
MergeUrls == {<<"/", "a">>, <<"/", "b">>}

\* The arrays of existing routers, each router at most once and in the
\* order of construction (the routers are built in every order, so every
\* order of an array is covered).
Increasing(rp) == \A i, j \in DOMAIN rp : i < j => rp[i] < rp[j]
Arrays ==
  {rp \in UNION {[1..n -> DOMAIN Existing] : n \in 0..Len(Existing)} : Increasing(rp)}

\* new Router(routers), new Router([]) for a router that starts empty
MergeArgs == {XArray(rp) : rp \in Arrays}

InitMerge == Init /\ kind = "Router" /\ prefix = <<>>

NextMerge ==
  \/ \E p \in MergeTemplates :
       Constructed /\ Len(regs) < MaxRoutes /\ AddRoute("GET", p, 1)
  \/ \E x \in MergeArgs :
       /\ Len(built) < MaxBuilt /\ baseRoutes # <<>> /\ Merged = {}
       /\ Construct(x, FALSE)
  \/ \E i \in DOMAIN built : i \notin Merged /\ UseRouter(i)
  \/ \E d \in Dispatches, u \in MergeUrls :
       /\ Constructed /\ Merged # {}
       /\ disp[d].pc = "idle" /\ ExecuteHandler(d, "GET", u)
  \/ \E d \in Dispatches : Step(d)
  \/ \E d \in Dispatches, b \in {"end", "throw"} : HandlerSettles(d, b)

MergeSpec == InitMerge /\ [][NextMerge]_vars

\* the request lines of MergeSpec
MergeLines == {SearchUrl(m, u) : m \in Methods, u \in MergeUrls}

\* some entry of a compiled table matches the line, as the resolver matches
SomeKeyMatches(table, line) == \E j \in DOMAIN table : RegExpTest(table[j].key, line)

\* C13 as stated: right after parent.use(child), every request line that
\* resolves on the child resolves on the parent to the same handlers and the
\* same bound parameters, whatever routes the parent held before.
C13_ChildRoutesResolveOnParent ==
  [][\A i \in DOMAIN built :
       UseRouter(i) =>
         \A line \in MergeLines :
           LET onChild == FindAndParse(built[i].parsedRoutes, line)
           IN  onChild.found => FindAndParse(enrichedRoutes', line) = onChild]_vars

\* C13 (amended): the same for every request line that no compiled key the
\* parent held before the merge matches.  An entry the parent already held
\* keeps its place in front of the entries the merge adds, so where it
\* matches it is the one resolved (with the child's handlers only if the
\* child holds the very same key and resolves the line to it).
C13_ChildRoutesResolveUnlessShadowed ==
  [][\A i \in DOMAIN built :
       UseRouter(i) =>
         \A line \in MergeLines :
           LET onChild == FindAndParse(built[i].parsedRoutes, line)
           IN  (onChild.found /\ ~SomeKeyMatches(enrichedRoutes, line))
                 => FindAndParse(enrichedRoutes', line) = onChild]_vars

\* C13 witness: the parent held a route of its own, a child was merged with
\* use(), and a request was resolved on the parent as the child resolves it
\* and its handler invoked
C13_Witness ==
  \E d \in Dispatches, i \in construction.used :
    LET r == disp[d]
        onChild == FindAndParse(built[i].parsedRoutes, Line(r))
    IN  /\ r.pc = "done" /\ r.found /\ r.log # <<>>
        /\ onChild.found /\ r.handlers = onChild.handlers /\ r.params = onChild.params
        /\ ~HasKey(built[i].parsedRoutes, enrichedRoutes[1].key)

\* the one entry a table holds under the key of e is e
HoldsOnly(table, e) ==
  /\ Cardinality(EntriesAt(table, e.key)) = 1
  /\ \A j \in EntriesAt(table, e.key) : table[j] = e

\* C14: merging is last-write-wins per key, in the compiled table (handlers
\* and parameter names) and in the raw table.  After use(child) the only
\* entry under each key of the child is the child's; after new
\* Router(routers) the only entry under each key is that of the last router
\* of the array that holds the key.
C14_LastWriteWins ==
  [][/\ \A i \in DOMAIN built :
          UseRouter(i) =>
            /\ \A j \in DOMAIN built[i].parsedRoutes :
                 HoldsOnly(enrichedRoutes', built[i].parsedRoutes[j])
            /\ \A j \in DOMAIN built[i].routes :
                 HoldsOnly(baseRoutes', built[i].routes[j])
     /\ \A rp \in Arrays :
          Construct(XArray(rp), FALSE) =>
            \A k \in DOMAIN rp :
              /\ \A j \in DOMAIN Existing[rp[k]].parsedRoutes :
                   LET e == Existing[rp[k]].parsedRoutes[j]
                   IN  (\A l \in DOMAIN rp : l > k => ~HasKey(Existing[rp[l]].parsedRoutes, e.key))
                         => HoldsOnly(enrichedRoutes', e)
              /\ \A j \in DOMAIN Existing[rp[k]].routes :
                   LET e == Existing[rp[k]].routes[j]
                   IN  (\A l \in DOMAIN rp : l > k => ~HasKey(Existing[rp[l]].routes, e.key))
                         => HoldsOnly(baseRoutes', e)]_vars

\* C14 witness: a router was built from an array of two routers that hold
\* the same compiled key with different handlers; its table has that key
\* once, with the later router's entry, and a request has run its handler
C14_Witness ==
  \E d \in Dispatches, i, j \in construction.merged :
    LET r == disp[d]
    IN  /\ i < j /\ Len(enrichedRoutes) = 1
        /\ Len(built[i].parsedRoutes) = 1 /\ Len(built[j].parsedRoutes) = 1
        /\ built[i].parsedRoutes[1].key = built[j].parsedRoutes[1].key
        /\ built[i].parsedRoutes[1].params # built[j].parsedRoutes[1].params
        /\ enrichedRoutes[1] = built[j].parsedRoutes[1]
        /\ r.pc = "done" /\ r.handlers = built[j].parsedRoutes[1].handlers
        /\ r.log # <<>>

(***************************************************************************)
(* CtorSpec: routers of either class are constructed with every form of    *)
(* the constructor's arguments, then given a route, a global handler,      *)
(* another router, and a request.                                          *)
(***************************************************************************)
\* new Router(), new Router(prefix), new Router(routers), new
\* Router(options), each with or without a second options argument
XArgs ==
  {XUndefined, XOptions} \cup {XString(pfx) : pfx \in Prefixes}
    \cup {XArray(rp) : rp \in Arrays}

NextCtor ==
  \/ \E x \in XArgs, o \in BOOLEAN : Len(built) < MaxBuilt /\ Construct(x, o)
  \/ Constructed /\ Len(regs) < MaxRoutes /\ AddRoute("GET", PA, 1)
  \/ Constructed /\ Len(defaultHandlers) < 1 /\ Use
  \/ \E i \in DOMAIN built : i \notin Merged /\ UseRouter(i)
  \/ \E d \in Dispatches, u \in MergeUrls :
       Constructed /\ disp[d].pc = "idle" /\ ExecuteHandler(d, "GET", u)
  \/ \E d \in Dispatches : Step(d)
  \/ \E d \in Dispatches, b \in {"end", "throw"} : HandlerSettles(d, b)

CtorSpec == Init /\ [][NextCtor]_vars

\* C15 as stated: every documented way of constructing a router, the call
\* without arguments and the call with an empty prefix included, completes
\* without error and leaves a router whose tables are empty or hold what
\* was merged.
C15_EveryConstructionCompletes ==
  /\ construction.threw = "none"
  /\ (regs = <<>> /\ construction.merged = {} /\ construction.used = {})
       => (baseRoutes = <<>> /\ enrichedRoutes = <<>>)

\* C15, the part that holds: a constructor call that passes the test of its
\* first line gives a router (of routers of its own class), and such a
\* router registers, merges and serves.
C15_ConstructsUnlessBothFalsy ==
  (construction.threw = "ReferenceError")
     <=> (construction.x \in {"undefined", "string"} /\ ~construction.options
            /\ prefix = <<>>)

(***************************************************************************)
(* The request context store.                                              *)
(***************************************************************************)
\* keys and values given to the context accessors; "constructor" is a key
\* like any other string
ContextKeys == {"k", "j", "constructor"}
ContextValues == {"v", "w", Undefined}

\* context: {} is an object literal: what it does not hold itself it
\* inherits from Object.prototype (constructor, toString, ...)
ObjectPrototype == [constructor |-> "Object", toString |-> "toString"]

\* this.context?.[key]: an own property, else an inherited one, else
\* undefined
Lookup(ctx, key) ==
  IF key \in DOMAIN ctx THEN ctx[key]
  ELSE IF key \in DOMAIN ObjectPrototype THEN ObjectPrototype[key]
  ELSE Undefined

\* getContext(key): this.context?.[key] ?? null
GetContextValue(ctx, key) ==
  IF Lookup(ctx, key) \in {Undefined, Null} THEN Null ELSE Lookup(ctx, key)

\* hasContextKey(key): Object.prototype.hasOwnProperty.call(this.context ?? {}, key)
HasOwnProperty(ctx, key) == key \in DOMAIN ctx

\* this.context[key] = value
Assign(ctx, key, value) == (key :> value) @@ ctx

\* delete this.context?.[key]
Delete(ctx, key) == [j \in DOMAIN ctx \ {key} |-> ctx[j]]

\* every request in service
AllRequests(d) == DOMAIN disp

\* The requests whose `context` is the object that request d's accessors
\* read and write.  #extendNativeObjects evaluates the literal context: {}
\* anew in each call, so it is the context of d alone.
ContextSharers(d) == {d}

\* a handler of dispatch d is running (it holds the extended request)
InHandler(d) ==
  /\ disp[d].pc \in {"awaitGlobal", "awaitLast", "awaitRoute"}
  /\ Running(disp[d]) # {}

\* the call is noted on d's request; the store of every request that shares
\* d's context object becomes ctx
ContextCalled(d, op, key, value, result, ctx) ==
  disp' = [e \in DOMAIN disp |->
             LET stored == IF e \in ContextSharers(d)
                           THEN [disp[e] EXCEPT !.context = ctx] ELSE disp[e]
             IN  IF e = d
                 THEN [stored EXCEPT !.contextCall =
                         <<[op |-> op, key |-> key, value |-> value, result |-> result]>>]
                 ELSE stored]

\* request.setContext(key, value) in a handler of dispatch d
SetContext(d, key, value) ==
  /\ InHandler(d)
  /\ ContextCalled(d, "setContext", key, value, "this",
                   Assign(disp[d].context, key, value))
  /\ UNCHANGED <<kind, prefix, baseRoutes, enrichedRoutes, defaultHandlers, regs, others>>

\* request.getContext(key)
GetContext(d, key) ==
  /\ InHandler(d)
  /\ ContextCalled(d, "getContext", key, Undefined,
                   GetContextValue(disp[d].context, key), disp[d].context)
  /\ UNCHANGED <<kind, prefix, baseRoutes, enrichedRoutes, defaultHandlers, regs, others>>

\* request.hasContextKey(key)
HasContextKey(d, key) ==
  /\ InHandler(d)
  /\ ContextCalled(d, "hasContextKey", key, Undefined,
                   HasOwnProperty(disp[d].context, key), disp[d].context)
  /\ UNCHANGED <<kind, prefix, baseRoutes, enrichedRoutes, defaultHandlers, regs, others>>

\* request.removeContextKey(key)
RemoveContextKey(d, key) ==
  /\ InHandler(d)
  /\ ContextCalled(d, "removeContextKey", key, Undefined, Undefined,
                   Delete(disp[d].context, key))
  /\ UNCHANGED <<kind, prefix, baseRoutes, enrichedRoutes, defaultHandlers, regs, others>>

(***************************************************************************)
(* ConcSpec: two executeHandler calls on one Router, for two requests that *)
(* resolve to the same route with different parameters, interleaved at     *)
(* every await; the handlers of each call write their own mark into the    *)
(* request context.                                                        *)
(***************************************************************************)
Concurrent == {1, 2}

\* the request of each call and the value its handlers put in the context
UrlOf(d) == IF d = 1 THEN <<"/", "a">> ELSE <<"/", "b">>
MarkOf(d) == IF d = 1 THEN "v" ELSE "w"

InitConc ==
  /\ message = NewRequest
  /\ listener = Listening
  /\ held = <<>>
  /\ optionObjects = ModuleLoaded
  /\ middleware = <<>>
  /\ kind = "Router"
  /\ prefix = <<>>
  /\ baseRoutes = <<>>
  /\ enrichedRoutes = <<>>
  /\ Fields
  /\ regs = <<>>
  /\ disp = [d \in Concurrent |-> IdleDispatch]
  /\ built = <<>>
  /\ construction = ByPrefix(prefix)
  /\ twinRun = <<>>

NextConc ==
  \/ \E c \in 1..MaxHandlers : Len(regs) < 1 /\ AddRoute("GET", PX, c)
  \/ Len(defaultHandlers) < 1 /\ Use
  \/ \E d \in Concurrent :
       regs # <<>> /\ disp[d].pc = "idle" /\ ExecuteHandler(d, "GET", UrlOf(d))
  \/ \E d \in Concurrent : Step(d)
  \/ \E d \in Concurrent, b \in {"next", "omit", "throw"} : HandlerSettles(d, b)
  \/ \E d \in Concurrent : SetContext(d, "k", MarkOf(d))

ConcSpec == InitConc /\ [][NextConc]_vars

\* C16: two interleaved calls never share per-request state.  Each call
\* has the params of its own request; its context holds only what its own
\* handlers put there; its chain goes from one handler to the next only
\* when its own handler called next(), and ends before the last handler
\* only when its own handler did not.
C16_DispatchesAreIsolated ==
  \A d \in Concurrent :
    LET r == disp[d]
    IN  /\ r.found => r.params = FindAndParse(enrichedRoutes, SearchUrl("GET", UrlOf(d))).params
        /\ \A key \in DOMAIN r.context : r.context[key] = MarkOf(d)
        /\ \A k \in DOMAIN r.log :
             (k < Len(r.log) /\ ~IsGlobal(r.log[k + 1].h)) => CallsNext(r.log[k].b)
        /\ (r.pc = "done" /\ r.outcome = "resolved" /\ r.log # <<>>
              /\ CallsNext(r.log[Len(r.log)].b))
             => r.log[Len(r.log)].h =
                  (IF r.handlers = <<>> THEN defaultHandlers[Len(defaultHandlers)]
                   ELSE r.handlers[Len(r.handlers)])

\* C16 witness: both calls are inside a route handler at the same time,
\* each with its own params and its own mark in its context, and the first
\* call is one handler further than the second
C16_Witness ==
  /\ Running(disp[1]) # {} /\ Running(disp[2]) # {}
  /\ disp[1].pc = "awaitRoute" /\ disp[2].pc = "awaitRoute"
  /\ disp[1].params[<<"x">>] = <<"a">> /\ disp[2].params[<<"x">>] = <<"b">>
  /\ disp[1].context = ("k" :> "v") /\ disp[2].context = ("k" :> "w")
  /\ disp[1].i = 2 /\ disp[2].i = 1

(***************************************************************************)
(* The listener interface.                                                 *)
(***************************************************************************)
MaxSubscriptions == 2

EventNames == {"error", "404"}

\* Callbacks are functions; f1 and f2 are two functions with the same
\* source text.
Callbacks == {"f1", "f2", "g"}
SourceText(callback) == IF callback = "g" THEN "g" ELSE "f"

\* Hash.sha256(callback.toString()): one signature per source text
Signature(callback) == SourceText(callback)

\* Crypto.uuid(): an id no subscription has
FreshId == 1 + Cardinality(DOMAIN subscriptions) + Cardinality(DOMAIN events.list)

\* this.subscribe(event, callback) of the EventEmitter base: the callback
\* is called for the event until the returned unsubscribe() is called
Subscribe(event, callback, id) ==
  Append(subscriptions, [event |-> event, callback |-> callback, id |-> id])

\* unsubscribe() of the recorded subscriptions ids
Unsubscribe(ids) == SelectSeq(subscriptions, LAMBDA sub : sub.id \notin ids)

\* how a call ended
Call(op, event, callback, threw) ==
  <<[op |-> op, event |-> event, callback |-> callback, threw |-> threw]>>

\* a method call on #events: with no array there it throws a TypeError
OnEvents == IF events.defined THEN "none" ELSE "TypeError"

\* addEventListener(event, callback): subscribe, then push the record
AddEventListener(event, callback) ==
  /\ Constructed
  /\ subscriptions' = Subscribe(event, callback, FreshId)
  /\ events' = IF events.defined
               THEN [events EXCEPT !.list =
                       Append(@, [callback |-> callback, signature |-> Signature(callback),
                                  eventId |-> FreshId, event |-> event])]
               ELSE events
  /\ returned' = Call("addEventListener", event, callback, OnEvents)
  /\ UNCHANGED <<kind, prefix, baseRoutes, enrichedRoutes, defaultHandlers, regs,
                 disp, built, construction, twinRun, apart>>

\* #events.findIndex(e => e.event === event && e.signature === signature)
FindIndex(event, callback) ==
  LET hits == {i \in DOMAIN events.list :
                 /\ events.list[i].event = event
                 /\ events.list[i].signature = Signature(callback)}
  IN  IF hits = {} THEN 0 ELSE MinOf(hits)

\* removeEventListener(event, callback)
RemoveEventListener(event, callback) ==
  LET index == FindIndex(event, callback)
  IN  /\ Constructed
      /\ IF events.defined /\ index > 0
         THEN /\ subscriptions' = Unsubscribe({events.list[index].eventId})
              /\ events' = [events EXCEPT !.list =
                              SubSeq(@, 1, index - 1) \o SubSeq(@, index + 1, Len(@))]
         ELSE UNCHANGED <<subscriptions, events>>
      /\ returned' = Call("removeEventListener", event, callback, OnEvents)
      /\ UNCHANGED <<kind, prefix, baseRoutes, enrichedRoutes, defaultHandlers, regs,
                     disp, built, construction, twinRun, apart>>

\* off(event)
Off(event) ==
  /\ Constructed
  /\ IF events.defined
     THEN /\ subscriptions' =
               Unsubscribe({events.list[i].eventId :
                              i \in {j \in DOMAIN events.list : events.list[j].event = event}})
          /\ events' = [events EXCEPT !.list = SelectSeq(@, LAMBDA e : e.event # event)]
     ELSE UNCHANGED <<subscriptions, events>>
  /\ returned' = Call("off", event, "", OnEvents)
  /\ UNCHANGED <<kind, prefix, baseRoutes, enrichedRoutes, defaultHandlers, regs,
                 disp, built, construction, twinRun, apart>>

\* removeAllEventListeners()
RemoveAllEventListeners ==
  /\ Constructed
  /\ IF events.defined
     THEN /\ subscriptions' = Unsubscribe({events.list[i].eventId : i \in DOMAIN events.list})
          /\ events' = [events EXCEPT !.list = <<>>]
     ELSE UNCHANGED <<subscriptions, events>>
  /\ returned' = Call("removeAllEventListeners", "", "", OnEvents)
  /\ UNCHANGED <<kind, prefix, baseRoutes, enrichedRoutes, defaultHandlers, regs,
                 disp, built, construction, twinRun, apart>>

(***************************************************************************)
(* EventSpec: the four methods of the listener interface are called on a   *)
(* router of either class in any order.                                    *)
(***************************************************************************)
InitEvents == Init /\ prefix = <<>>

NextEvents ==
  \/ \E e \in EventNames, f \in Callbacks :
       Len(subscriptions) < MaxSubscriptions /\ AddEventListener(e, f)
  \/ \E e \in EventNames, f \in Callbacks : RemoveEventListener(e, f)
  \/ \E e \in EventNames : Off(e)
  \/ RemoveAllEventListeners

EventSpec == InitEvents /\ [][NextEvents]_vars

\* the recorded subscriptions of a callback for an event
Recorded(list, event, callback) ==
  {i \in DOMAIN list : list[i].event = event /\ list[i].callback = callback}

\* the subscriptions the emitter holds for a callback on an event
Active(subs, event, callback) ==
  {i \in DOMAIN subs : subs[i].event = event /\ subs[i].callback = callback}

\* the entries of a sequence other than those for (event, callback)
Others(seq, event, callback) ==
  SelectSeq(seq, LAMBDA e : ~(e.event = event /\ e.callback = callback))

\* C17 as stated: addEventListener(event, callback) completes normally and
\* records exactly one subscription; removeEventListener(event, callback)
\* completes normally, revokes one subscription of that callback for that
\* event if there is one, and leaves every other subscription recorded and
\* active.
C17_SubscribeAndRevokeOne ==
  [][\A e \in EventNames, f \in Callbacks :
       /\ AddEventListener(e, f) =>
            /\ returned'[1].threw = "none"
            /\ events'.defined
            /\ Len(events'.list) = Len(events.list) + 1
            /\ Cardinality(Recorded(events'.list, e, f))
                 = Cardinality(Recorded(events.list, e, f)) + 1
       /\ RemoveEventListener(e, f) =>
            /\ returned'[1].threw = "none"
            /\ Recorded(events.list, e, f) # {} =>
                 /\ Cardinality(Recorded(events'.list, e, f))
                      = Cardinality(Recorded(events.list, e, f)) - 1
                 /\ Cardinality(Active(subscriptions', e, f))
                      = Cardinality(Active(subscriptions, e, f)) - 1
            /\ Others(events'.list, e, f) = Others(events.list, e, f)
            /\ Others(subscriptions', e, f) = Others(subscriptions, e, f)]_vars

\* C18 as stated: in every state, also when no listener was ever added,
\* removeEventListener for a pair without a subscription returns normally
\* and leaves the subscriptions as they are.
C18_RemoveMissingIsNoOp ==
  [][\A e \in EventNames, f \in Callbacks :
       (RemoveEventListener(e, f) /\ Recorded(events.list, e, f) = {}) =>
         /\ returned'[1].threw = "none"
         /\ events'.list = events.list
         /\ subscriptions' = subscriptions]_vars

\* C19 as stated: off(event) completes, unsubscribes and removes every
\* subscription recorded for the event and leaves those of other events;
\* removeAllEventListeners() completes, unsubscribes every recorded
\* subscription and leaves the list empty.
C19_OffAndRemoveAll ==
  [][/\ \A e \in EventNames :
          Off(e) =>
            /\ returned'[1].threw = "none"
            /\ events'.defined
            /\ events'.list = SelectSeq(events.list, LAMBDA x : x.event # e)
            /\ subscriptions' = SelectSeq(subscriptions, LAMBDA x : x.event # e)
     /\ RemoveAllEventListeners =>
          /\ returned'[1].threw = "none"
          /\ events'.defined /\ events'.list = <<>>
          /\ subscriptions' = <<>>]_vars

\* what holds instead: no call of the listener interface completes, #events
\* never holds an array, and what addEventListener subscribed stays
\* subscribed
C17_EveryCallThrows ==
  /\ ~events.defined
  /\ returned # <<>> => returned[1].threw = "TypeError"

(***************************************************************************)
(* ContextSpec: the handler of one request calls the four context          *)
(* accessors in any order, with any key and value.                         *)
(***************************************************************************)
InitContext == Init /\ kind = "Router" /\ prefix = <<>>

NextContext ==
  \/ Len(regs) < 1 /\ AddRoute("GET", PA, 1)
  \/ \E d \in Dispatches : disp[d].pc = "idle" /\ ExecuteHandler(d, "GET", PA)
  \/ \E d \in Dispatches : Step(d)
  \/ \E d \in Dispatches, b \in {"end", "throw"} : HandlerSettles(d, b)
  \/ \E d \in Dispatches, k \in ContextKeys, v \in ContextValues : SetContext(d, k, v)
  \/ \E d \in Dispatches, k \in ContextKeys : GetContext(d, k)
  \/ \E d \in Dispatches, k \in ContextKeys : HasContextKey(d, k)
  \/ \E d \in Dispatches, k \in ContextKeys : RemoveContextKey(d, k)

ContextSpec == InitContext /\ [][NextContext]_vars

\* what hasContextKey and getContext tell about the keys in K is the same
\* before and after the step
SameFor(K, d) ==
  \A j \in K :
    /\ HasOwnProperty(disp'[d].context, j) = HasOwnProperty(disp[d].context, j)
    /\ GetContextValue(disp'[d].context, j) = GetContextValue(disp[d].context, j)

\* the store as a map over the keys K and the values V
MapOver(K, V) ==
  \A d \in Dispatches, k \in K :
    /\ \A v \in V :
         SetContext(d, k, v) =>
           /\ HasOwnProperty(disp'[d].context, k)
           /\ GetContextValue(disp'[d].context, k) = v
           /\ SameFor(ContextKeys \ {k}, d)
    /\ RemoveContextKey(d, k) =>
         /\ ~HasOwnProperty(disp'[d].context, k)
         /\ GetContextValue(disp'[d].context, k) = Null
         /\ SameFor(ContextKeys \ {k}, d)
    /\ GetContext(d, k) =>
         /\ SameFor(ContextKeys, d)
         /\ IF HasOwnProperty(disp[d].context, k)
              THEN disp[d].context[k] \in V =>
                     disp'[d].contextCall[1].result = disp[d].context[k]
              ELSE disp'[d].contextCall[1].result = Null
    /\ HasContextKey(d, k) =>
         /\ SameFor(ContextKeys, d)
         /\ disp'[d].contextCall[1].result = HasOwnProperty(disp[d].context, k)

\* C20 as stated: under any sequence of the four accessors the store is a
\* map.  After setContext(k, v), hasContextKey(k) is true and getContext(k)
\* gives v; after removeContextKey(k), hasContextKey(k) is false and
\* getContext(k) gives null; getContext of an absent key gives null; an
\* operation on k leaves every other key as it was.
C20_BehavesAsMap == [][MapOver(ContextKeys, ContextValues)]_vars

\* C20, the part that holds: the same for keys that Object.prototype does
\* not define and values that are not undefined.
C20_MapOnOrdinaryKeys ==
  [][MapOver(ContextKeys \ DOMAIN ObjectPrototype, ContextValues \ {Undefined})]_vars

(***************************************************************************)
(* The `context` property.                                                 *)
(***************************************************************************)
\* keys that Object.prototype does not define, values that are not undefined
OrdinaryKeys == ContextKeys \ DOMAIN ObjectPrototype
DefinedValues == ContextValues \ {Undefined}

\* request.context in a handler of dispatch d.  Object.assign copied the
\* property `context` of the frozen literal onto the request: its value is
\* the object the accessors use, and that object was never frozen.
ReadContext(d) ==
  /\ InHandler(d)
  /\ disp' = [disp EXCEPT ![d].obtained = TRUE,
                          ![d].contextCall =
                             <<[op |-> "context", key |-> Undefined,
                                value |-> Undefined, result |-> "object"]>>]
  /\ UNCHANGED <<kind, prefix, baseRoutes, enrichedRoutes, defaultHandlers, regs, others>>

\* the object that a write through the value of `context` lands on
ObtainedIsStore == TRUE

\* request.context[key] = value, on the object read before
WriteObtained(d, key, value) ==
  /\ InHandler(d)
  /\ disp[d].obtained
  /\ ContextCalled(d, "write", key, value, Undefined,
                   IF ObtainedIsStore THEN Assign(disp[d].context, key, value)
                   ELSE disp[d].context)
  /\ UNCHANGED <<kind, prefix, baseRoutes, enrichedRoutes, defaultHandlers, regs, others>>

\* a call on the Request instance and how it ended
Called(op, key, value, result, threw) ==
  <<[op |-> op, key |-> key, value |-> value, result |-> result, threw |-> threw]>>

\* get context() { return Object.freeze(this.#ctx); }: the store itself is
\* frozen and returned
MessageContext ==
  /\ message' = [message EXCEPT !.frozen = TRUE,
                                !.call = Called("context", Undefined, Undefined, "object", "none")]
  /\ UNCHANGED <<kind, prefix, baseRoutes, enrichedRoutes, defaultHandlers, regs, disp,
                 built, construction, events, subscriptions, returned, twinRun,
                 listener, held, optionObjects, middleware>>

\* this.#ctx[key] = value in class code, which is strict: on a frozen
\* object the assignment throws
MessageSetContext(key, value) ==
  /\ message' = IF message.frozen
                THEN [message EXCEPT !.call = Called("setContext", key, value, Undefined, "TypeError")]
                ELSE [message EXCEPT !.ctx = Assign(@, key, value),
                                     !.call = Called("setContext", key, value, Undefined, "none")]
  /\ UNCHANGED <<kind, prefix, baseRoutes, enrichedRoutes, defaultHandlers, regs, disp,
                 built, construction, events, subscriptions, returned, twinRun,
                 listener, held, optionObjects, middleware>>

\* return (this.#ctx[key] ?? null);
MessageGetContext(key) ==
  /\ message' = [message EXCEPT !.call =
                   Called("getContext", key, Undefined, GetContextValue(message.ctx, key), "none")]
  /\ UNCHANGED <<kind, prefix, baseRoutes, enrichedRoutes, defaultHandlers, regs, disp,
                 built, construction, events, subscriptions, returned, twinRun,
                 listener, held, optionObjects, middleware>>

\* delete this.#ctx[key]: deleting an own property of a frozen object
\* throws in strict code; deleting what is not there does nothing
MessageRemoveContextKey(key) ==
  /\ message' = IF message.frozen /\ HasOwnProperty(message.ctx, key)
                THEN [message EXCEPT !.call = Called("removeContextKey", key, Undefined, Undefined, "TypeError")]
                ELSE [message EXCEPT !.ctx = Delete(@, key),
                                     !.call = Called("removeContextKey", key, Undefined, Undefined, "none")]
  /\ UNCHANGED <<kind, prefix, baseRoutes, enrichedRoutes, defaultHandlers, regs, disp,
                 built, construction, events, subscriptions, returned, twinRun,
                 listener, held, optionObjects, middleware>>

\* message.context[key] = value by a reader, on the object read before (it
\* is frozen since): the write throws in strict code and is dropped
\* otherwise
MessageWriteObtained(key, value, strict) ==
  /\ message.frozen
  /\ message' = [message EXCEPT !.call =
                   Called("write", key, value, Undefined,
                          IF strict THEN "TypeError" ELSE "none")]
  /\ UNCHANGED <<kind, prefix, baseRoutes, enrichedRoutes, defaultHandlers, regs, disp,
                 built, construction, events, subscriptions, returned, twinRun,
                 listener, held, optionObjects, middleware>>

(***************************************************************************)
(* SnapshotSpec: either a Request instance is read and written through    *)
(* `context` and the accessors in any order, or a Router serves a request  *)
(* whose handler does the same with the request it was given.              *)
(***************************************************************************)
InitSnapshot == Init /\ kind = "Router" /\ prefix = <<>>

NextSnapshot ==
  \/ regs = <<>> /\ MessageContext
  \/ \E k \in OrdinaryKeys, v \in DefinedValues : regs = <<>> /\ MessageSetContext(k, v)
  \/ \E k \in OrdinaryKeys : regs = <<>> /\ MessageGetContext(k)
  \/ \E k \in OrdinaryKeys : regs = <<>> /\ MessageRemoveContextKey(k)
  \/ \E k \in OrdinaryKeys, v \in DefinedValues, strict \in BOOLEAN :
       regs = <<>> /\ MessageWriteObtained(k, v, strict)
  \/ Len(regs) < 1 /\ message = NewRequest /\ AddRoute("GET", PA, 1)
  \/ \E d \in Dispatches : disp[d].pc = "idle" /\ ExecuteHandler(d, "GET", PA)
  \/ \E d \in Dispatches : Step(d)
  \/ \E d \in Dispatches, b \in {"end", "throw"} : HandlerSettles(d, b)
  \/ \E d \in Dispatches : ReadContext(d)
  \/ \E d \in Dispatches, k \in OrdinaryKeys, v \in DefinedValues : SetContext(d, k, v)
  \/ \E d \in Dispatches, k \in OrdinaryKeys : GetContext(d, k)
  \/ \E d \in Dispatches, k \in OrdinaryKeys : RemoveContextKey(d, k)
  \/ \E d \in Dispatches, k \in OrdinaryKeys, v \in DefinedValues : WriteObtained(d, k, v)

SnapshotSpec == InitSnapshot /\ [][NextSnapshot]_vars

\* what getContext gives for every key is the same before and after the step
SameAnswers(before, after) ==
  \A j \in OrdinaryKeys : GetContextValue(after, j) = GetContextValue(before, j)

\* C21, on the request a Router hands to its handlers: setContext and
\* removeContextKey take effect whether or not `context` was read, and a
\* write to the object read from `context` leaves every getContext answer
\* as it was.
SnapshotOfExtendedRequest ==
  \A d \in Dispatches, k \in OrdinaryKeys, v \in DefinedValues :
    /\ SetContext(d, k, v) => GetContextValue(disp'[d].context, k) = v
    /\ RemoveContextKey(d, k) => GetContextValue(disp'[d].context, k) = Null
    /\ WriteObtained(d, k, v) => SameAnswers(disp[d].context, disp'[d].context)

\* C21, on a Request instance: the same three statements
SnapshotOfRequest ==
  \A k \in OrdinaryKeys, v \in DefinedValues :
    /\ MessageSetContext(k, v) =>
         /\ message'.call[1].threw = "none"
         /\ GetContextValue(message'.ctx, k) = v
    /\ MessageRemoveContextKey(k) =>
         /\ message'.call[1].threw = "none"
         /\ GetContextValue(message'.ctx, k) = Null
    /\ \A strict \in BOOLEAN :
         MessageWriteObtained(k, v, strict) => SameAnswers(message.ctx, message'.ctx)

\* C21 as stated: reading `context` never stops a later setContext or
\* removeContextKey from taking effect, and writing to the object obtained
\* from `context` never changes what getContext returns; for the request of
\* either implementation, with keys that Object.prototype does not define
\* and values other than undefined.
C21_ReadOnlySnapshot == [][SnapshotOfExtendedRequest /\ SnapshotOfRequest]_vars

\* C21, on the extended request alone
C21_ExtendedRequestSnapshot == [][SnapshotOfExtendedRequest]_vars

\* C21, on the Request class alone
C21_RequestSnapshot == [][SnapshotOfRequest]_vars

\* C21, what holds: the accessors of the extended request take effect
\* whether or not `context` was read, and a Request instance is a map for
\* as long as its `context` was never read.
C21_AccessorsTakeEffect ==
  [][/\ \A d \in Dispatches, k \in OrdinaryKeys, v \in DefinedValues :
          /\ SetContext(d, k, v) => GetContextValue(disp'[d].context, k) = v
          /\ RemoveContextKey(d, k) => GetContextValue(disp'[d].context, k) = Null
     /\ ~message.frozen => SnapshotOfRequest]_vars

(***************************************************************************)
(* response.json.                                                          *)
(***************************************************************************)
\* values handed to json(): a plain object, a number, an object that refers
\* to itself, the value undefined and a function
JsonData == {"object", "number", "circular", Undefined, "function"}

\* JSON.stringify(body): it throws on a cyclic structure, gives the JSON
\* text of a JSON value, and gives undefined (without throwing) for
\* undefined and for a function
JSONStringify(body) ==
  IF body = "circular" THEN [threw |-> TRUE, text |-> Undefined]
  ELSE IF body \in {Undefined, "function"} THEN [threw |-> FALSE, text |-> Undefined]
  ELSE [threw |-> FALSE, text |-> IF body = "object" THEN "{}" ELSE "1"]

\* the statusCode of an UnprocessableEntityError
UnprocessableEntity == 422

JsonContentType == "application/json; charset=UTF-8"

\* response.headersSent: the head goes out with the first write or end
HeadersSent(r) == r.written > 0 \/ r.ended > 0

\* a call of a method of the response: what was written, what it returned
\* or threw
ResponseCalled(op, body, wrote, result, threw, statusCode) ==
  <<[op |-> op, body |-> body, wrote |-> wrote, result |-> result, threw |-> threw,
     statusCode |-> statusCode]>>

\* response.write(chunk) by a handler of dispatch d
Write(d) ==
  /\ InHandler(d)
  /\ disp' = [disp EXCEPT ![d].written = @ + 1,
                          ![d].steps = Append(@, "write"),
                          ![d].responseCall =
                             ResponseCalled("write", "chunk", "chunk", "true", "none", 0)]
  /\ UNCHANGED <<kind, prefix, baseRoutes, enrichedRoutes, defaultHandlers, regs, others>>

\* json(body), line by line: stringify inside try/catch, the Content-Type
\* header unless headersSent, write(serialized), return this.  write()
\* throws a TypeError for a chunk that is not a string or a byte array.
JsonEffects(r, body) ==
  LET serialized == JSONStringify(body)
      headed == IF ~HeadersSent(r)
                THEN [r EXCEPT !.contentType = JsonContentType,
                               !.steps = Append(@, "setHeader")]
                ELSE r
  IN  IF serialized.threw
      THEN [r EXCEPT !.responseCall =
              ResponseCalled("json", body, Undefined, Undefined,
                             "UnprocessableEntityError", UnprocessableEntity)]
      ELSE IF serialized.text = Undefined
           THEN [headed EXCEPT !.responseCall =
                   ResponseCalled("json", body, Undefined, Undefined, "TypeError", 0)]
           ELSE [headed EXCEPT !.written = @ + 1,
                               !.steps = Append(@, "write"),
                               !.responseCall =
                   ResponseCalled("json", body, serialized.text, "this", "none", 0)]

\* response.json(body) in a handler of dispatch d
Json(d, body) ==
  /\ InHandler(d)
  /\ disp' = [disp EXCEPT ![d] = JsonEffects(disp[d], body)]
  /\ UNCHANGED <<kind, prefix, baseRoutes, enrichedRoutes, defaultHandlers, regs, others>>

(***************************************************************************)
(* JsonSpec: the handlers of one route call response.json with every kind  *)
(* of value, before and after the head of the response went out.           *)
(***************************************************************************)
InitJson == Init /\ kind = "Router" /\ prefix = <<>>

NextJson ==
  \/ \E c \in 1..MaxHandlers : Len(regs) < 1 /\ AddRoute("GET", PA, c)
  \/ \E d \in Dispatches : disp[d].pc = "idle" /\ ExecuteHandler(d, "GET", PA)
  \/ \E d \in Dispatches : Step(d)
  \/ \E d \in Dispatches, b \in {"next", "end", "throw"} : HandlerSettles(d, b)
  \/ \E d \in Dispatches : Len(disp[d].steps) < MaxWrites /\ Write(d)
  \/ \E d \in Dispatches, body \in JsonData :
       Len(disp[d].steps) < MaxWrites /\ Json(d, body)

JsonSpec == InitJson /\ [][NextJson]_vars

\* the response as a client sees it
ResponseState(r) == <<r.statusCode, r.contentType, r.written, r.ended>>

\* the contract of json(body) for the bodies in B
JsonContract(B) ==
  \A d \in Dispatches, body \in B :
    Json(d, body) =>
      LET call == disp'[d].responseCall[1]
      IN  IF JSONStringify(body).threw
          THEN /\ call.threw = "UnprocessableEntityError"
               /\ call.statusCode = 422
               /\ ResponseState(disp'[d]) = ResponseState(disp[d])
          ELSE /\ call.threw = "none"
               /\ call.result = "this"
               /\ call.wrote = JSONStringify(body).text
               /\ disp'[d].contentType =
                    (IF HeadersSent(disp[d]) THEN disp[d].contentType ELSE JsonContentType)
               /\ disp'[d].written = disp[d].written + 1
               /\ disp'[d].ended = disp[d].ended
               /\ disp'[d].statusCode = disp[d].statusCode

\* C22 as stated: when serialization fails, json raises an
\* UnprocessableEntityError (422) and leaves the response unchanged; when it
\* does not fail, Content-Type is set to JSON only if the headers were not
\* sent, the serialized body is written once, the response is not ended and
\* is returned.
C22_JsonContract == [][JsonContract(JsonData)]_vars

\* C22, what holds: the same for bodies that JSON.stringify either rejects
\* or turns into text.
C22_JsonContractForJsonValues ==
  [][JsonContract({body \in JsonData : JSONStringify(body).threw
                                        \/ JSONStringify(body).text # Undefined})]_vars

(***************************************************************************)
(* The request listener of the server.                                     *)
(***************************************************************************)
\* the statusCode written for an error that carries none
InternalServerError == 500

DefaultAction == "Check the server logs for more information."

\* The values a handler throws: an ExtendedSerializableError, which carries
\* a statusCode and serialize(), or another Error, which may carry a
\* statusCode, an action and a context.
StructuredErrors ==
  {[structured |-> TRUE, hasStatus |-> TRUE, statusCode |-> 422,
    hasAction |-> TRUE, hasContext |-> TRUE]}

OtherErrors ==
  {[structured |-> FALSE, hasStatus |-> hs, statusCode |-> IF hs THEN 404 ELSE 0,
    hasAction |-> ha, hasContext |-> hc] : hs \in BOOLEAN, ha \in BOOLEAN, hc \in BOOLEAN}

Errors == StructuredErrors \cup OtherErrors

\* err.statusCode in the first branch, err.statusCode ?? 500 in the second
StatusFor(err) ==
  IF err.structured \/ err.hasStatus THEN err.statusCode ELSE InternalServerError

\* the object whose JSON text is written: err.serialize(), or message,
\* action and context with their defaults
BodyFor(err) ==
  IF err.structured
  THEN [from |-> "serialize", message |-> "serialized", action |-> "serialized",
        context |-> "serialized"]
  ELSE [from |-> "literal", message |-> "err.message",
        action |-> IF err.hasAction THEN "err.action" ELSE DefaultAction,
        context |-> IF err.hasContext THEN "err.context" ELSE "{}"]

\* response.setHeader throws ERR_HTTP_HEADERS_SENT once the head went out
SetHeaderThrows(r) == HeadersSent(r)

\* The continuation of `await router.executeHandler(request, response)` in
\* the listener.  When the call resolved the listener returns.  When it
\* rejected with err the catch block assigns statusCode, calls setHeader,
\* write and end; an exception in the catch block rejects the listener's
\* own promise.
HandleRequest(d, err) ==
  /\ listener.pc = "await"
  /\ disp[d].pc = "done"
  /\ IF disp[d].outcome = "resolved"
     THEN /\ listener' = [listener EXCEPT !.pc = "done", !.outcome = "resolved"]
          /\ disp' = disp
     ELSE IF SetHeaderThrows(disp[d])
     THEN /\ listener' = [listener EXCEPT !.pc = "done", !.outcome = "rejected",
                                          !.error = "ERR_HTTP_HEADERS_SENT"]
          /\ disp' = [disp EXCEPT ![d].statusCode = StatusFor(err)]
     ELSE /\ listener' = [listener EXCEPT !.pc = "done", !.outcome = "resolved",
                                          !.body = <<BodyFor(err)>>]
          /\ disp' = [disp EXCEPT ![d].statusCode = StatusFor(err),
                                  ![d].contentType = "application/json",
                                  ![d].written = @ + 1,
                                  ![d].ended = @ + 1,
                                  ![d].steps = @ \o <<"setHeader", "write", "end">>]
  /\ UNCHANGED <<kind, prefix, baseRoutes, enrichedRoutes, defaultHandlers, regs,
                 built, construction, events, subscriptions, returned, twinRun,
                 message, held, optionObjects, middleware>>

(***************************************************************************)
(* ServerSpec: the server's Router holds one route; the listener passes    *)
(* one request to executeHandler; the handlers may write to the response,  *)
(* end it, call next or throw any error.                                   *)
(***************************************************************************)
InitServer == Init /\ kind = "Router" /\ prefix = <<>>

NextServer ==
  \/ \E c \in 1..MaxHandlers : Len(regs) < 1 /\ AddRoute("GET", PA, c)
  \/ \E d \in Dispatches, u \in ChainUrls :
       disp[d].pc = "idle" /\ ExecuteHandler(d, "GET", u)
  \/ \E d \in Dispatches : Step(d)
  \/ \E d \in Dispatches, b \in {"next", "end", "throw"} : HandlerSettles(d, b)
  \/ \E d \in Dispatches : disp[d].written < MaxWrites /\ Write(d)
  \/ \E d \in Dispatches, err \in Errors : HandleRequest(d, err)

ServerSpec == InitServer /\ [][NextServer]_vars

\* the listener answers the failure err of dispatch d with a terminated
\* JSON error response and does not reject
AnswersFailure(d, err) ==
  /\ listener'.outcome = "resolved"
  /\ disp'[d].statusCode = StatusFor(err)
  /\ disp'[d].contentType = "application/json"
  /\ listener'.body = <<BodyFor(err)>>
  /\ disp'[d].ended = 1

\* C23 as stated: every failure raised by executeHandler becomes a JSON
\* error response with the error's status (or 500) and body, ended exactly
\* once, and the listener never rejects, whatever the handler had done to
\* the response before failing.
C23_EveryFailureAnswered ==
  [][\A d \in Dispatches, err \in Errors :
       (HandleRequest(d, err) /\ disp[d].outcome = "rejected") => AnswersFailure(d, err)]_vars

\* C23, what holds: the same when the failing handlers had not written to
\* the response nor ended it.
C23_FailureAnsweredOnUntouchedResponse ==
  [][\A d \in Dispatches, err \in Errors :
       (HandleRequest(d, err) /\ disp[d].outcome = "rejected" /\ ~HeadersSent(disp[d]))
         => AnswersFailure(d, err)]_vars

\* C23, what holds: a call that resolved leaves the response as it is
C23_ResolvedIsReturned ==
  [][\A d \in Dispatches, err \in Errors :
       (HandleRequest(d, err) /\ disp[d].outcome = "resolved")
         => (listener'.outcome = "resolved" /\ disp' = disp)]_vars

(***************************************************************************)
(* Registration keys and the prefix (checked under Spec).                  *)
(***************************************************************************)
\* the request line METHOD P+path of registration n
LineOf(n) == <<regs[n].method, SP>> \o prefix \o regs[n].path

\* registration n is the one a request for its own line is resolved to: no
\* route registered before it has a pattern that matches the line, and no
\* later registration took over its raw key or its compiled pattern
Unshadowed(n) ==
  /\ MinOf(Matching(LineOf(n))) = MinOf({m \in DOMAIN regs : regs[m].pattern = regs[n].pattern})
  /\ LatestUnderPattern(n) = n

\* every registration is stored under upper(METHOD) + " " + P + path, a path
\* "/" contributing nothing
StoredUnderKey ==
  \A n \in DOMAIN regs :
    LET key == <<regs[n].method, SP>> \o prefix
                 \o (IF regs[n].path = <<"/">> THEN <<>> ELSE regs[n].path)
    IN  /\ regs[n].key = key
        /\ Cardinality(EntriesAt(baseRoutes, key)) = 1
        /\ regs[n].method \in Methods

\* a request for the line of one of the registrations in N is resolved to
\* the handlers of that registration
ResolvesOwnLine(N) ==
  \A d \in Dispatches, n \in N :
    (disp[d].pc # "idle" /\ Line(disp[d]) = LineOf(n)) =>
      (disp[d].found /\ disp[d].handlers = regs[n].handlers)

\* C24 as stated: every route is stored under METHOD + " " + P + path, the
\* prefix never changes, and a request for METHOD P+path resolves to that
\* route (the route being the latest registration of its key).
C24_KeyPrefixAndResolution ==
  /\ [](StoredUnderKey /\ ResolvesOwnLine(DOMAIN regs \ Replaced))
  /\ [][prefix' = prefix]_vars

\* C24, what holds: the same, the request for METHOD P+path resolving to
\* that route when no route registered earlier has a pattern that matches
\* the line somewhere and no later registration compiled to its pattern.
C24_KeyPrefixAndUnshadowedResolution ==
  /\ [](StoredUnderKey /\ ResolvesOwnLine({n \in DOMAIN regs : Unshadowed(n)}))
  /\ [][prefix' = prefix]_vars

(***************************************************************************)
(* The `routes` and `parsedRoutes` getters.                                *)
(***************************************************************************)
\* new Map(table): a map of its own that holds the entries of the table in
\* the table's order
NewMap(of, table) == [of |-> of, own |-> TRUE, entries |-> table]

\* router.routes
GetRoutes ==
  /\ Constructed
  /\ held' = <<NewMap("routes", baseRoutes)>>
  /\ UNCHANGED <<kind, prefix, baseRoutes, enrichedRoutes, defaultHandlers, regs, disp,
                 built, construction, events, subscriptions, returned, twinRun,
                 message, listener, optionObjects, middleware>>

\* router.parsedRoutes
GetParsedRoutes ==
  /\ Constructed
  /\ held' = <<NewMap("parsedRoutes", enrichedRoutes)>>
  /\ UNCHANGED <<kind, prefix, baseRoutes, enrichedRoutes, defaultHandlers, regs, disp,
                 built, construction, events, subscriptions, returned, twinRun,
                 message, listener, optionObjects, middleware>>

\* a handler list that was never registered on the router
ForeignHandlers == <<<<0, 0>>>>

\* the entry a caller puts into the map it holds
ForeignEntry(of, key) ==
  IF of = "routes" THEN [key |-> key, handlers |-> ForeignHandlers]
  ELSE [key |-> key, handlers |-> ForeignHandlers, params |-> <<>>]

\* entries without the one stored under key
MapDelete(m, key) == SelectSeq(m, LAMBDA e : e.key # key)

\* The caller changes the map it holds into `entries`.  A map of its own is
\* the only one to change; were it the router's table, the table would
\* change with it.
HeldBecomes(entries) ==
  /\ held' = <<[held[1] EXCEPT !.entries = entries]>>
  /\ IF held[1].own THEN UNCHANGED <<baseRoutes, enrichedRoutes>>
     ELSE IF held[1].of = "routes"
          THEN baseRoutes' = entries /\ UNCHANGED enrichedRoutes
          ELSE enrichedRoutes' = entries /\ UNCHANGED baseRoutes
  /\ UNCHANGED <<kind, prefix, defaultHandlers, regs, disp,
                 built, construction, events, subscriptions, returned, twinRun,
                 message, listener, optionObjects, middleware>>

\* held.set(key, value): adds an entry or replaces one
HeldSet(key) ==
  /\ held # <<>>
  /\ HeldBecomes(MapSet(held[1].entries, ForeignEntry(held[1].of, key)))

\* held.delete(key)
HeldDelete(key) ==
  /\ held # <<>>
  /\ HasKey(held[1].entries, key)
  /\ HeldBecomes(MapDelete(held[1].entries, key))

(***************************************************************************)
(* CopySpec: a Router with up to MaxRoutes routes; callers read the two    *)
(* getters and add to, replace in and delete from the maps they got, at    *)
(* any time between registrations and dispatches.                          *)
(***************************************************************************)
CopyKeys == {<<"GET", " ", "/", "a">>, <<"GET", " ", "/", "b">>, <<"GET", " ", "/", GROUP>>}

InitCopy == Init /\ kind = "Router" /\ prefix = <<>>

NextCopy ==
  \/ \E p \in {PA, PX} : Len(regs) < MaxRoutes /\ AddRoute("GET", p, 1)
  \/ GetRoutes
  \/ GetParsedRoutes
  \/ \E key \in CopyKeys : HeldSet(key)
  \/ \E key \in CopyKeys : HeldDelete(key)
  \/ \E d \in Dispatches, u \in ChainUrls :
       disp[d].pc = "idle" /\ ExecuteHandler(d, "GET", u)
  \/ \E d \in Dispatches : Step(d)
  \/ \E d \in Dispatches, b \in {"end", "throw"} : HandlerSettles(d, b)

CopySpec == InitCopy /\ [][NextCopy]_vars

\* the registrations that hold a raw key, and those that hold a compiled
\* pattern, as the registrations alone determine them
RawTableOfRegs ==
  \A i \in DOMAIN baseRoutes :
    \E n \in DOMAIN regs :
      /\ baseRoutes[i].key = regs[n].key
      /\ baseRoutes[i].handlers = regs[LatestOfKey(n)].handlers

CompiledTableOfRegs ==
  \A i \in DOMAIN enrichedRoutes :
    \E n \in DOMAIN regs :
      /\ enrichedRoutes[i].key = regs[n].pattern
      /\ enrichedRoutes[i].handlers = regs[LatestUnderPattern(n)].handlers

\* C25: what a caller does to a map it got from `routes` or `parsedRoutes`
\* (adding, replacing, deleting entries) changes neither table of the
\* router; the tables hold the registered routes and nothing else; every
\* later getter call returns the router's table as it is; and every
\* dispatch resolves as the router's table says, never to a handler that
\* was put into a returned map.
C25_GettersReturnCopies ==
  /\ [][\A key \in CopyKeys :
          (HeldSet(key) \/ HeldDelete(key)) =>
            /\ baseRoutes' = baseRoutes
            /\ enrichedRoutes' = enrichedRoutes
            /\ \A u \in ChainUrls :
                 FindAndParse(enrichedRoutes', SearchUrl("GET", u))
                   = FindAndParse(enrichedRoutes, SearchUrl("GET", u))]_vars
  /\ [][(GetRoutes => held'[1].entries = baseRoutes)
        /\ (GetParsedRoutes => held'[1].entries = enrichedRoutes)]_vars
  /\ [](/\ Len(baseRoutes) = Cardinality({regs[n].key : n \in DOMAIN regs})
        /\ Len(enrichedRoutes) = Cardinality({regs[n].pattern : n \in DOMAIN regs})
        /\ RawTableOfRegs
        /\ CompiledTableOfRegs
        /\ \A d \in Dispatches :
             /\ ForeignHandlers[1] \notin RouteHandlersInvoked(disp[d])
             /\ disp[d].pc # "idle" =>
                  disp[d].found = FindAndParse(enrichedRoutes, Line(disp[d])).found)

\* C25 witness: the caller replaced the one entry of the map it got from
\* parsedRoutes by a handler list of its own, the router's table still
\* holds the registered handlers, and a request was served by them
C25_Witness ==
  \E d \in Dispatches :
    /\ held # <<>>
    /\ held[1].of = "parsedRoutes"
    /\ Len(regs) = 1
    /\ Len(held[1].entries) = 1
    /\ held[1].entries[1].key = regs[1].pattern
    /\ held[1].entries[1].handlers = ForeignHandlers
    /\ enrichedRoutes[1].handlers = regs[1].handlers
    /\ disp[d].pc = "done"
    /\ RouteHandlersInvoked(disp[d]) = Range(regs[1].handlers)

(***************************************************************************)
(* PatternSpec: a Router, with or without prefix, whose routes are written *)
(* with parameters, with a repeated parameter and with parentheses in the  *)
(* path.                                                                   *)
(***************************************************************************)
\* /(a): a path that carries a group of its own
PG == <<"/", LGROUP>>

PatternTemplates == {PA, PX, PXX, PG}
PatternUrls == {<<"/", "a">>, <<"/", "b">>, <<"/", "a", "/", "b">>, <<"/", "p", "/", "a">>}

InitPattern == Init /\ kind = "Router"

NextPattern ==
  \/ \E p \in PatternTemplates : Len(regs) < MaxRoutes /\ AddRoute("GET", p, 1)
  \/ \E d \in Dispatches, u \in PatternUrls :
       disp[d].pc = "idle" /\ ExecuteHandler(d, "GET", u)
  \/ \E d \in Dispatches : Step(d)
  \/ \E d \in Dispatches, b \in {"end", "throw"} : HandlerSettles(d, b)

PatternSpec == InitPattern /\ [][NextPattern]_vars

\* the number of capturing groups of a pattern
CapturingGroups(pattern) ==
  Cardinality({i \in DOMAIN pattern : pattern[i] \in {GROUP, LGROUP}})

\* the compiled routes whose pattern has as many groups as names recorded
Balanced == {i \in DOMAIN enrichedRoutes :
               Len(enrichedRoutes[i].params) = CapturingGroups(enrichedRoutes[i].key)}

\* the compiled route a dispatch resolved to
ResolvedEntry(r) == CHOOSE i \in DOMAIN enrichedRoutes :
                      enrichedRoutes[i].handlers = r.handlers

\* a match binds every captured value to a recorded name and every recorded
\* name to a value
BoundByName(r) ==
  /\ <<Undefined>> \notin DOMAIN r.params
  /\ DOMAIN r.params = Range(enrichedRoutes[ResolvedEntry(r)].params)

\* C26 as stated: in every reachable route table every compiled route has
\* as many recorded parameter names as its pattern has capturing groups, so
\* a match never binds a captured value to a missing name and never leaves
\* a recorded name unbound.
C26_NamesEqualGroups ==
  /\ Balanced = DOMAIN enrichedRoutes
  /\ \A d \in Dispatches : disp[d].found => BoundByName(disp[d])

\* C26, what holds: the same for the routes whose path has no parentheses.
C26_NamesEqualParameterGroups ==
  /\ \A i \in DOMAIN enrichedRoutes :
       (\A k \in DOMAIN enrichedRoutes[i].key : enrichedRoutes[i].key[k] # LGROUP)
         => i \in Balanced
  /\ \A d \in Dispatches :
       (disp[d].found /\ ResolvedEntry(disp[d]) \in Balanced) => BoundByName(disp[d])

(***************************************************************************)
(* The not-found path (checked under ChainSpec).                           *)
(***************************************************************************)
\* C27: a request that resolves to no route is answered by exactly this
\* sequence: one `405` event when the path is registered under another
\* method, else one `404` event, carrying the request line (method and
\* route); then writeHead with that status and Content-Type text/plain;
\* then end.  No global middleware and no route handler is invoked, no
\* `error` event is emitted, nothing else is written, and executeHandler
\* resolves.
C27_NotFoundSequence ==
  \A d \in Dispatches :
    LET r == disp[d]
        line == Line(r)
        code == IF ExistsWithAnotherMethod(enrichedRoutes, line) THEN "405" ELSE "404"
    IN  (r.pc # "idle" /\ ~FindAndParse(enrichedRoutes, line).found) =>
          /\ r.pc = "done"
          /\ ~r.found
          /\ r.steps = <<code, "writeHead", "end">>
          /\ r.events = <<[name |-> code, target |-> line, wrapped |-> TRUE]>>
          /\ line[1] = r.method
          /\ r.statusCode = (IF code = "405" THEN 405 ELSE 404)
          /\ r.contentType = "text/plain"
          /\ r.ended = 1 /\ r.written = 0
          /\ r.log = <<>>
          /\ r.outcome = "resolved"

\* C27 witness: with global middleware registered, one request was answered
\* 404 and the router is of either class
C27_Witness ==
  \E d \in Dispatches :
    /\ Len(defaultHandlers) >= 2
    /\ regs # <<>>
    /\ disp[d].pc = "done" /\ ~disp[d].found
    /\ disp[d].statusCode = 404
    /\ disp[d].steps = <<"404", "writeHead", "end">>

\* the same for 405: the path is registered under POST and GET was asked
C27_Witness405 ==
  \E d \in Dispatches :
    /\ Len(defaultHandlers) >= 1
    /\ disp[d].pc = "done" /\ ~disp[d].found
    /\ disp[d].method = "GET"
    /\ disp[d].steps = <<"405", "writeHead", "end">>

(***************************************************************************)
(* UseSpec: a child Router, with or without prefix, is given routes; then  *)
(* the parent Router is constructed with a prefix of its own, may get      *)
(* routes and a global handler, takes the child with use() and serves a    *)
(* request.                                                                *)
(***************************************************************************)
UseTemplates == {PA, PX}
UseUrls == {<<"/", "a">>, <<"/", "p", "/", "a">>}

InitUse == Init /\ kind = "Router"

NextUse ==
  \/ \E p \in UseTemplates :
       Constructed /\ Merged = {} /\ Len(regs) < MaxRoutes /\ AddRoute("GET", p, 1)
  \/ \E pfx \in Prefixes :
       built = <<>> /\ baseRoutes # <<>> /\ Construct(XString(pfx), pfx = <<>>)
  \/ Len(built) = 1 /\ Len(defaultHandlers) < 1 /\ Use
  \/ \E i \in DOMAIN built : i \notin Merged /\ UseRouter(i)
  \/ \E d \in Dispatches, u \in UseUrls :
       Merged # {} /\ disp[d].pc = "idle" /\ ExecuteHandler(d, "GET", u)
  \/ \E d \in Dispatches : Step(d)
  \/ \E d \in Dispatches, b \in {"end", "throw"} : HandlerSettles(d, b)

UseSpec == InitUse /\ [][NextUse]_vars

Keys(table) == {table[j].key : j \in DOMAIN table}

\* use(built[i]) leaves the parent's prefix and global handlers alone and
\* sets every raw and compiled entry of the child, key and value unchanged,
\* in the parent's tables, which get no other key
CopiedUnchanged(i) ==
  /\ prefix' = prefix
  /\ defaultHandlers' = defaultHandlers
  /\ Range(built[i].routes) \subseteq Range(baseRoutes')
  /\ Range(built[i].parsedRoutes) \subseteq Range(enrichedRoutes')
  /\ Keys(baseRoutes') = Keys(baseRoutes) \cup Keys(built[i].routes)
  /\ Keys(enrichedRoutes') = Keys(enrichedRoutes) \cup Keys(built[i].parsedRoutes)

\* the compiled routes of the child and the paths u (instances of C+path)
\* that are theirs: the pattern matches the line GET u as a whole and the
\* child resolves the line to that route
OwnPaths(i) ==
  {<<k, u>> \in (DOMAIN built[i].parsedRoutes) \X UseUrls :
     /\ FullMatch(built[i].parsedRoutes[k].key, SearchUrl("GET", u)).ok
     /\ FindAndParse(built[i].parsedRoutes, SearchUrl("GET", u)).handlers
          = built[i].parsedRoutes[k].handlers}

\* after use(built[i]) the child's route is reached on the parent at C+path,
\* when no route the parent held before matches that line
ReachedAtOwnPath(i) ==
  \A ku \in OwnPaths(i) :
    LET line == SearchUrl("GET", ku[2])
    IN  ~SomeKeyMatches(enrichedRoutes, line) =>
          /\ FindAndParse(enrichedRoutes', line).found
          /\ FindAndParse(enrichedRoutes', line).handlers
               = built[i].parsedRoutes[ku[1]].handlers

\* after use(built[i]) the child's route is not reached on the parent at
\* parentPrefix+C+path
NotReachedUnderPrefix(i) ==
  \A ku \in OwnPaths(i) :
    LET line == SearchUrl("GET", prefix \o ku[2])
    IN  prefix # <<>> =>
          ~(/\ FindAndParse(enrichedRoutes', line).found
            /\ FindAndParse(enrichedRoutes', line).handlers
                 = built[i].parsedRoutes[ku[1]].handlers)

\* C28 as stated: use(child) copies the child's raw and compiled keys
\* unchanged and applies no prefix: a child route METHOD C+path is reached
\* on the parent at exactly C+path (when no route the parent already held
\* matches that line) and not at parentPrefix+C+path; the parent's
\* defaultHandlers and prefix do not change.
C28_NoPrefixReapplied ==
  [][\A i \in DOMAIN built :
       UseRouter(i) =>
         (CopiedUnchanged(i) /\ ReachedAtOwnPath(i) /\ NotReachedUnderPrefix(i))]_vars

\* C28, what holds: the keys are copied unchanged, the child's routes are
\* reached at C+path, and the parent's defaultHandlers and prefix stay.
C28_KeysCopiedUnchanged ==
  [][\A i \in DOMAIN built :
       UseRouter(i) => (CopiedUnchanged(i) /\ ReachedAtOwnPath(i))]_vars

(***************************************************************************)
(* SuccessiveSpec: executeHandler calls that follow each other on one      *)
(* router.  Request 2 is dispatched when the dispatch of request 1 is      *)
(* over, and a request whose dispatch is over may be dispatched again.     *)
(* Handlers write to the context; listeners are subscribed in between.     *)
(***************************************************************************)
NextSuccessive ==
  \/ Len(regs) < 1 /\ AddRoute("GET", PX, 1)
  \/ Len(defaultHandlers) < 1 /\ Use
  \/ Len(subscriptions) < 1 /\ AddEventListener("error", "f1")
  \/ \E d \in Concurrent, u \in {UrlOf(1), UrlOf(2)} :
       /\ regs # <<>>
       /\ \A e \in Concurrent \ {d} : disp[e].pc = (IF e < d THEN "done" ELSE "idle")
       /\ ExecuteHandler(d, "GET", u)
  \/ \E d \in Concurrent : Step(d)
  \/ \E d \in Concurrent, b \in {"next", "end", "throw"} : HandlerSettles(d, b)
  \/ \E d \in Concurrent : SetContext(d, "k", MarkOf(d))

SuccessiveSpec == InitConc /\ [][NextSuccessive]_vars

\* the parameters on the request are those of the route it resolved to, and
\* each value is a segment of its own url
OnlyOwnParams(r) ==
  IF r.found
  THEN /\ \E j \in DOMAIN enrichedRoutes :
            /\ enrichedRoutes[j].handlers = r.handlers
            /\ DOMAIN r.params = Range(enrichedRoutes[j].params)
       /\ \A name \in DOMAIN r.params :
            \E i \in DOMAIN r.url, j \in DOMAIN r.url :
              SubSeq(r.url, i, j) = r.params[name]
  ELSE r.params = <<>>

\* C29: no request state survives across dispatches.  Every executeHandler
\* call starts its dispatch with an empty context store and with params
\* that hold only the parameters bound for its own request, whatever an
\* earlier dispatch left; and no step of a dispatch changes the raw table,
\* the compiled table, defaultHandlers or the subscriptions.
C29_NoStateSurvives ==
  [][\A d \in Concurrent :
       /\ disp'[d] # disp[d] =>
            UNCHANGED <<baseRoutes, enrichedRoutes, defaultHandlers, subscriptions>>
       /\ \A u \in {UrlOf(1), UrlOf(2)} :
            ExecuteHandler(d, "GET", u) =>
              /\ disp'[d].context = <<>>
              /\ disp'[d].url = u
              /\ OnlyOwnParams(disp'[d])]_vars

\* C29 witness: the dispatch of GET /a is over and has left k in its context
\* and x = a in its params; the dispatch of GET /b that followed has just
\* started with an empty context and x = b only, on a router that holds a
\* global handler and a subscription.
C29_Witness ==
  /\ disp[1].pc = "done"
  /\ disp[1].context # <<>>
  /\ disp[1].params = (<<"x">> :> <<"a">>)
  /\ disp[2].pc = "globalLoop"
  /\ disp[2].context = <<>>
  /\ disp[2].params = (<<"x">> :> <<"b">>)
  /\ defaultHandlers # <<>>
  /\ subscriptions # <<>>

(***************************************************************************)
(* BothSpec: a route with up to MaxHandlers handlers, each of which may    *)
(* also call next(error) and next() in one invocation.                     *)
(***************************************************************************)
NextBoth ==
  \/ \E c \in 1..MaxHandlers : Len(regs) < 1 /\ AddRoute("GET", PA, c)
  \/ \E d \in Dispatches : disp[d].pc = "idle" /\ ExecuteHandler(d, "GET", PA)
  \/ \E d \in Dispatches : Step(d)
  \/ \E d \in Dispatches, b \in Behaviours \cup BothWays : HandlerSettles(d, b)

BothSpec == InitChain /\ [][NextBoth]_vars

\* the route handlers of r that have called next(error), with B the
\* behaviours looked at
SignalledError(r, B) ==
  {k \in DOMAIN r.log :
     ~IsGlobal(r.log[k].h) /\ r.log[k].b \in B /\ CallsNextError(r.log[k].b)}

\* C30 as stated: once a route handler has called next(error), also when it
\* calls next() before or after it in the same invocation, no later handler
\* of the route is invoked.
C30_NextErrorStopsChain ==
  \A d \in Dispatches :
    \A k \in SignalledError(disp[d], Behaviours \cup BothWays) : k = Len(disp[d].log)

\* C30, what holds: a route handler that calls next(error) and never next()
\* ends the chain.
C30_NextErrorAloneStopsChain ==
  \A d \in Dispatches :
    \A k \in SignalledError(disp[d], Behaviours) : k = Len(disp[d].log)

(***************************************************************************)
(* The payload of the `error` events (checked under ChainSpec).            *)
(***************************************************************************)
\* the `error` events emitted so far in the dispatch r
ErrorEvents(r) == {k \in DOMAIN r.events : r.events[k].name = "error"}

\* C31 as stated: every `error` event emitted during a dispatch carries the
\* error instance itself as its payload, in the same shape whether the
\* failure was signalled through next(error) or thrown by a handler.
C31_ErrorPayloadIsTheError ==
  \A d \in Dispatches :
    \A k \in ErrorEvents(disp[d]) : ~disp[d].events[k].wrapped

\* C31, what holds: an `error` event emitted by next(error) carries the
\* error itself, one emitted by the catch block carries an ErrorEvent
\* whose target is the error thrown.
C31_ErrorPayloadByOrigin ==
  \A d \in Dispatches :
    \A k \in ErrorEvents(disp[d]) :
      IF disp[d].events[k].wrapped
      THEN disp[d].pc \in {"rethrow", "done"} /\ disp[d].events[k].target = disp[d].thrown
      ELSE \E j \in DOMAIN disp[d].log :
             /\ disp[d].log[j].h = disp[d].events[k].target
             /\ CallsNextError(disp[d].log[j].b)

(***************************************************************************)
(* QuerySpec: requests whose url carries a query string.  request.url is   *)
(* the text of the request line after the method: path, "?" and query.     *)
(***************************************************************************)
QM == "?"
QueryTemplates == {PA, PX, PAB}
QueryPaths == {<<"/", "a">>, <<"/", "b">>, <<"/", "a", "/", "b">>}
Queries == {<<>>, <<QM, "q">>, <<QM, "q", "/", "a">>}

InitQuery == InitRoutes /\ prefix = <<>>

NextQuery ==
  \/ \E m \in Methods, p \in QueryTemplates :
       /\ Len(regs) < MaxRoutes
       /\ \A d \in Dispatches : disp[d].pc = "idle"
       /\ AddRoute(m, p, 1)
  \/ \E d \in Dispatches, u \in QueryPaths, q \in Queries :
       disp[d].pc = "idle" /\ ExecuteHandler(d, "GET", u \o q)
  \/ \E d \in Dispatches : Step(d)
  \/ \E d \in Dispatches, b \in {"next", "end", "throw"} : HandlerSettles(d, b)

QuerySpec == InitQuery /\ [][NextQuery]_vars

\* the path of a url: what stands before the first "?"
RECURSIVE PathOf(_)
PathOf(url) ==
  IF url = <<>> THEN <<>>
  ELSE IF url[1] = QM THEN <<>>
  ELSE <<url[1]>> \o PathOf(Tail(url))

\* what a dispatch of method and url on the routes decides: the route, the
\* parameters, or the 404/405 reply
Decision(routes, method, url) ==
  LET line == SearchUrl(method, url)
      m == FindAndParse(routes, line)
  IN  [found |-> m.found, handlers |-> m.handlers, params |-> m.params,
       reply |-> IF m.found THEN "route"
                 ELSE IF ExistsWithAnotherMethod(routes, line) THEN "405"
                 ELSE "404"]

\* what the dispatch r has decided
Decided(r) ==
  [found |-> r.found, handlers |-> r.handlers, params |-> r.params,
   reply |-> IF r.found THEN "route" ELSE r.events[1].name]

\* C32 as stated: the route selected, the 404/405 classification and the
\* values bound to the path parameters of a request are those of its path
\* alone, whether or not the url carries a query string.
C32_QueryStringIgnored ==
  \A d \in Dispatches :
    disp[d].pc # "idle" =>
      Decided(disp[d]) = Decision(enrichedRoutes, disp[d].method, PathOf(disp[d].url))

\* C32, what holds: a request without query string is decided by its path,
\* and a query string without "/" after a path that ends in a segment
\* changes neither the route selected nor the 404/405 classification.
C32_SlashFreeQueryKeepsRoute ==
  \A d \in Dispatches :
    LET r == disp[d]
        byPath == Decision(enrichedRoutes, r.method, PathOf(r.url))
    IN  (r.pc # "idle" /\ SL \notin Range(Drop(r.url, Len(PathOf(r.url)) + 1))) =>
          /\ Decided(r).found = byPath.found
          /\ Decided(r).handlers = byPath.handlers
          /\ Decided(r).reply = byPath.reply
          /\ r.url = PathOf(r.url) => Decided(r) = byPath

(***************************************************************************)
(* EquivSpec: the chain of this Router against the single chain of the     *)
(* earlier Router.  Each handler continues (next), stops (omit) or calls   *)
(* next(error); a handler that throws ends the call rejected.              *)
(***************************************************************************)
Choices == {"next", "omit", "nextErr"}

\* The earlier executeHandler: for(const handler of [...defaultHandlers,
\* ...handlers]) { handleNextRoute = false; await handler(..., next);
\* if(!handleNextRoute) break; } -- the handlers it invokes, from the i-th
\* on, when handler h behaves as beh[h]
RECURSIVE SingleChainFrom(_, _, _)
SingleChainFrom(chain, beh, i) ==
  IF i > Len(chain) THEN <<>>
  ELSE <<chain[i]>> \o (IF CallsNext(beh[chain[i]])
                        THEN SingleChainFrom(chain, beh, i + 1)
                        ELSE <<>>)

SingleChain(globals, handlers, beh) == SingleChainFrom(globals \o handlers, beh, 1)

InitEquiv == InitChain /\ kind = "Router"

NextEquiv ==
  \/ \E c \in 1..MaxHandlers : Len(regs) < 1 /\ AddRoute("POST", PA, c)
  \/ Len(defaultHandlers) < MaxGlobals /\ disp[1].pc = "idle" /\ Use
  \/ \E d \in Dispatches, m \in Methods :
       disp[d].pc = "idle" /\ ExecuteHandler(d, m, PA)
  \/ \E d \in Dispatches : Step(d)
  \/ \E d \in Dispatches, b \in Choices \cup {"throw"} : HandlerSettles(d, b)

EquivSpec == InitEquiv /\ [][NextEquiv]_vars

\* the handlers the dispatch r has invoked, in order
Invoked(r) == [k \in DOMAIN r.log |-> r.log[k].h]

\* the choices per handler that agree with what the handlers of r did
AgreeingChoices(r) ==
  {beh \in [Range(defaultHandlers \o r.handlers) -> Choices] :
     \A k \in DOMAIN r.log : beh[r.log[k].h] = r.log[k].b}

\* the dispatch r is over and has invoked what the single chain invokes
\* under every choice per handler that agrees with it
AsSingleChain(r) ==
  \A beh \in AgreeingChoices(r) :
    Invoked(r) = SingleChain(defaultHandlers, r.handlers, beh)

\* C33 as stated: for every number of global and route handlers and every
\* choice of continue / stop / next(error) per handler, a finished dispatch
\* of this Router has invoked exactly the handlers, in the same order, that
\* the earlier Router's single chain [globals..., route handlers...] invokes.
C33_SameAsSingleChain ==
  \A d \in Dispatches :
    (disp[d].pc = "done" /\ disp[d].found /\ disp[d].outcome = "resolved")
      => AsSingleChain(disp[d])

\* C33, what holds: the two agree whenever every global handler but the
\* last continues (in particular with at most one global handler).
C33_SameWhenGlobalsContinue ==
  \A d \in Dispatches :
    LET r == disp[d]
    IN  (/\ r.pc = "done" /\ r.found /\ r.outcome = "resolved"
         /\ \A k \in DOMAIN r.log :
              (IsGlobal(r.log[k].h) /\ r.log[k].h # defaultHandlers[Len(defaultHandlers)])
                => CallsNext(r.log[k].b))
        => AsSingleChain(r)

(***************************************************************************)
(* The Http2Router without global middleware (checked under ChainSpec).    *)
(***************************************************************************)
\* the dispatch r on an Http2Router without use() middleware has resolved
\* to a route and is over
OverWithoutGlobals(r) ==
  /\ kind = "Http2Router"
  /\ defaultHandlers = <<>>
  /\ r.found
  /\ r.pc = "done"

\* C34 as stated: on an Http2Router without global middleware a request
\* that resolves to a route has that route's handlers invoked in order, no
\* `error` event is emitted that a handler did not ask for with next(error),
\* and when no handler throws executeHandler resolves.
C34_Http2WithoutGlobalsRunsRoute ==
  \A d \in Dispatches :
    LET r == disp[d]
    IN  OverWithoutGlobals(r) =>
          /\ r.log # <<>>
          /\ \A k \in DOMAIN r.log : r.log[k].h = r.handlers[k]
          /\ \A k \in ErrorEvents(r) : ~r.events[k].wrapped
          /\ (\A k \in DOMAIN r.log : ~Throws(r.log[k].b)) => r.outcome = "resolved"

\* C34, what happens instead: no handler is invoked, one `error` event is
\* emitted for the TypeError of calling undefined, and the call is rejected
\* with that TypeError.
C34_Http2WithoutGlobalsRejects ==
  \A d \in Dispatches :
    LET r == disp[d]
    IN  OverWithoutGlobals(r) =>
          /\ r.log = <<>>
          /\ r.events = <<[name |-> "error", target |-> TypeError, wrapped |-> TRUE]>>
          /\ r.outcome = "rejected"
          /\ r.error = TypeError

(***************************************************************************)
(* The raw and the compiled table (checked under MergeSpec: registrations  *)
(* of /a, /:x and /:y, array constructors and use() merges).               *)
(***************************************************************************)
\* the compiled entry that #parse makes of a raw entry
CompiledOf(raw) == Parse(raw.key, raw.handlers)

\* the raw entries whose compiled pattern is that of no other raw key
AloneInPattern ==
  {i \in DOMAIN baseRoutes :
     \A j \in DOMAIN baseRoutes :
       CompiledOf(baseRoutes[j]).key = CompiledOf(baseRoutes[i]).key => j = i}

\* C35 as stated: under any sequence of registrations and merges, for every
\* key of the raw table the compiled table holds an entry for its compiled
\* pattern with the handler list and the parameter names of that raw route.
C35_TablesConsistent ==
  \A i \in DOMAIN baseRoutes :
    \E j \in DOMAIN enrichedRoutes : enrichedRoutes[j] = CompiledOf(baseRoutes[i])

\* C35, what holds: every raw key has a compiled entry under its pattern,
\* which carries its handlers and parameter names when no other raw key
\* compiles to the same pattern; and every compiled entry is that of some
\* raw entry.
C35_ConsistentUpToSharedPatterns ==
  /\ \A i \in DOMAIN baseRoutes : HasKey(enrichedRoutes, CompiledOf(baseRoutes[i]).key)
  /\ \A i \in AloneInPattern :
       \E j \in DOMAIN enrichedRoutes : enrichedRoutes[j] = CompiledOf(baseRoutes[i])
  /\ \A j \in DOMAIN enrichedRoutes :
       \E i \in DOMAIN baseRoutes : enrichedRoutes[j] = CompiledOf(baseRoutes[i])

(***************************************************************************)
(* OptionsSpec: routers of both classes are constructed one after the      *)
(* other with a prefix, each with an options object or with none.          *)
(***************************************************************************)
OptionNames == {"verbose", "strict"}

\* the options objects given: {}, { verbose: false }, { strict: true } and
\* { verbose: false, strict: true }
OptionsGiven ==
  {[verbose |-> v, strict |-> s] : v \in {<<>>, <<FALSE>>}, s \in {<<>>, <<TRUE>>}}

\* no second argument
NoOptions == <<>>

\* o = options && isPlainObject(options) ? options : {}
PlainOrEmpty(o) == IF o = <<>> THEN [verbose |-> <<>>, strict |-> <<>>] ELSE o[1]

\* Object.assign(target, source): the properties of source are written on
\* target, and target is what it returns
ObjectAssign(target, source) ==
  [k \in OptionNames |-> IF source[k] # <<>> THEN source[k] ELSE target[k]]

\* new Router(pfx, o) or new Http2Router(pfx, o) with a prefix and with
\* o = <<an options object>> or <<>>:
\* this.#options = Object.assign(DEFAULT_OPTIONS, o)
ConstructWith(class, pfx, o) ==
  /\ Constructing(XString(pfx), o # NoOptions)
  /\ kind' = class
  /\ UNCHANGED middleware
  /\ optionObjects' =
       IF ConstructorThrows(XString(pfx), o # NoOptions) # "none" THEN optionObjects
       ELSE [DEFAULT_OPTIONS |-> ObjectAssign(optionObjects.DEFAULT_OPTIONS, PlainOrEmpty(o)),
             routers |-> Append(optionObjects.routers,
                                [class |-> class, o |-> PlainOrEmpty(o),
                                 options |-> "DEFAULT_OPTIONS"])]

\* this.#options of the i-th router constructed: the object it refers to
OptionsOf(i) ==
  IF optionObjects.routers[i].options = "DEFAULT_OPTIONS"
  THEN optionObjects.DEFAULT_OPTIONS
  ELSE optionObjects.routers[i].o

InitOptions == Init /\ prefix = <<"/", "p">>

NextOptions ==
  \E class \in Kinds, pfx \in Prefixes, o \in {NoOptions} \cup {<<g>> : g \in OptionsGiven} :
    Len(optionObjects.routers) < MaxBuilt /\ ConstructWith(class, pfx, o)

OptionsSpec == InitOptions /\ [][NextOptions]_vars

\* C36 as stated: options are per instance.  The options in effect for
\* every router constructed are the defaults verbose = true, strict = false
\* overlaid with the options object it was itself constructed with, whatever
\* routers were constructed before or after it with other options; so a
\* router constructed without options has the defaults.
C36_OptionsPerInstance ==
  \A i \in DOMAIN optionObjects.routers :
    OptionsOf(i) = ObjectAssign(DefaultOptions, optionObjects.routers[i].o)

\* the options objects given so far, written one over the other on top
RECURSIVE AllAssigned(_, _)
AllAssigned(top, n) ==
  IF n = 0 THEN top
  ELSE ObjectAssign(AllAssigned(top, n - 1), optionObjects.routers[n].o)

\* C36, what holds: all routers of both classes are in effect under one
\* and the same options, the defaults overlaid with every options object
\* given to a constructor so far, in the order of the calls.
C36_OptionsShared ==
  \A i \in DOMAIN optionObjects.routers :
    OptionsOf(i) = AllAssigned(DefaultOptions, Len(optionObjects.routers))

(***************************************************************************)
(* OrderSpec: MergeSpec with three registrations, so that a key can be     *)
(* overwritten after another key was registered behind it, and with        *)
(* requests, also without a merge, once the registrations are made.        *)
(***************************************************************************)
\* as many registrations as there are templates
OrderRoutes == Cardinality(MergeTemplates)

NextOrder ==
  \/ \E p \in MergeTemplates :
       Constructed /\ Len(regs) < OrderRoutes /\ AddRoute("GET", p, 1)
  \/ \E x \in MergeArgs :
       /\ Len(built) < MaxBuilt /\ baseRoutes # <<>> /\ Merged = {}
       /\ Construct(x, FALSE)
  \/ \E i \in DOMAIN built : i \notin Merged /\ UseRouter(i)
  \/ \E d \in Dispatches :
       /\ Constructed /\ Len(regs) = OrderRoutes /\ Len(enrichedRoutes) > 1
       /\ disp[d].pc = "idle" /\ ExecuteHandler(d, "GET", <<"/", "a">>)
  \/ \E d \in Dispatches : Step(d)
  \/ \E d \in Dispatches, b \in {"end", "throw"} : HandlerSettles(d, b)

OrderSpec == InitMerge /\ [][NextOrder]_vars

\* the keys of a table in the order in which they are tried
KeySeq(table) == [i \in DOMAIN table |-> table[i].key]

IsPrefix(s, t) == Len(s) <= Len(t) /\ SubSeq(t, 1, Len(s)) = s

\* the keys of a list of entries, each at the place of its first occurrence
RECURSIVE FirstInsertions(_)
FirstInsertions(entries) ==
  IF entries = <<>> THEN <<>>
  ELSE LET before == FirstInsertions(SubSeq(entries, 1, Len(entries) - 1))
           key == entries[Len(entries)].key
       IN  IF \E i \in DOMAIN before : before[i] = key THEN before
           ELSE Append(before, key)

\* C37: overwriting a key keeps its position in the matching order.  On a
\* registration or a use() merge every key the tables held stays where it
\* was and the new keys come behind; a router constructed from an array has
\* its keys in the order of their first insertion; and a request is given
\* to the first entry, in that order, whose pattern matches.
C37_OverwriteKeepsPosition ==
  /\ [][/\ built' = built =>
             /\ IsPrefix(KeySeq(enrichedRoutes), KeySeq(enrichedRoutes'))
             /\ IsPrefix(KeySeq(baseRoutes), KeySeq(baseRoutes'))
        /\ \A x \in MergeArgs :
             (Construct(x, FALSE) /\ Constructed') =>
               /\ KeySeq(enrichedRoutes') = FirstInsertions(FlatParsedRoutes(x.routers))
               /\ KeySeq(baseRoutes') = FirstInsertions(FlatRoutes(x.routers))]_vars
  /\ [](\A d \in Dispatches :
          (disp[d].found /\ disp[d].pc = "globalLoop") =>
            \E j \in DOMAIN enrichedRoutes :
              /\ enrichedRoutes[j].handlers = disp[d].handlers
              /\ \A i \in 1..(j - 1) :
                   ~RegExpTest(enrichedRoutes[i].key, SearchUrl(disp[d].method, disp[d].url)))

\* C37 witness: /:x was registered, then /a, then /:y, whose compiled key is
\* that of /:x: the entry is still the first of the compiled table, before
\* /a, and GET /a has been given to the handlers of /:y.
C37_Witness ==
  /\ Len(regs) = 3
  /\ regs[1].key = <<"GET", SP>> \o PX
  /\ regs[2].key = <<"GET", SP>> \o PA
  /\ regs[3].key = <<"GET", SP>> \o PY
  /\ KeySeq(enrichedRoutes) = <<regs[1].pattern, regs[2].pattern>>
  /\ enrichedRoutes[1].handlers = regs[3].handlers
  /\ disp[1].found
  /\ disp[1].handlers = regs[3].handlers

(***************************************************************************)
(* LateSpec: two executeHandler calls on a Router with one route of up to  *)
(* MaxHandlers handlers and at most one global handler.  A handler whose   *)
(* promise has settled without a call of next may call next() or           *)
(* next(error) afterwards, from a microtask or a timer it had set up.      *)
(***************************************************************************)
\* the handler of log entry k has returned without calling next and has not
\* thrown
SettledWithoutNext(r, k) ==
  /\ r.log[k].b # "running"
  /\ ~CallsNext(r.log[k].b)
  /\ ~CallsNextError(r.log[k].b)
  /\ ~Throws(r.log[k].b)

\* The variable that the next closure of log entry k writes is read once, by
\* the continuation of `await handler(...)`: handleNextRoute belongs to one
\* iteration of a loop, handleRoutes is read by `if(!handleRoutes) return`.
\* Until that continuation has run the variable is still to be read.
StillToBeRead(r, k) ==
  /\ k = Len(r.log)
  /\ r.pc \in {"awaitGlobal", "awaitLast", "awaitRoute"}

\* the next closure of log entry k of dispatch d is called after the
\* handler's promise has settled: next(error) emits `error`, next() sets the
\* closure's variable
LateNext(d, k, error) ==
  LET r == disp[d]
      noted == [r EXCEPT !.late = Append(@, [h |-> r.log[k].h, error |-> error,
                                             read |-> ~StillToBeRead(r, k)])]
  IN  /\ k \in DOMAIN r.log
      /\ SettledWithoutNext(r, k)
      /\ disp' = [disp EXCEPT ![d] =
           IF error THEN Emit(noted, "error", r.log[k].h, FALSE)
           ELSE IF ~StillToBeRead(r, k) THEN noted
           ELSE IF r.pc = "awaitLast" THEN [noted EXCEPT !.handleRoutes = TRUE]
           ELSE [noted EXCEPT !.handleNextRoute = TRUE]]
      /\ UNCHANGED <<kind, prefix, baseRoutes, enrichedRoutes, defaultHandlers, regs, others>>

NextLate ==
  \/ \E c \in 1..MaxHandlers : Len(regs) < 1 /\ AddRoute("GET", PX, c)
  \/ Len(defaultHandlers) < 1 /\ regs = <<>> /\ Use
  \/ \E d \in Concurrent :
       /\ regs # <<>> /\ disp[d].pc = "idle"
       /\ \A e \in Concurrent : e < d => disp[e].pc # "idle"
       /\ ExecuteHandler(d, "GET", UrlOf(d))
  \/ \E d \in Concurrent : Step(d)
  \/ \E d \in Concurrent, b \in {"next", "omit", "throw"} : HandlerSettles(d, b)
  \/ \E d \in Concurrent, k \in 1..(1 + MaxHandlers), error \in BOOLEAN :
       /\ disp[d].late = <<>>
       /\ \A e \in Concurrent \ {d} : disp[e].late = <<>>
       /\ LateNext(d, k, error)

LateSpec == InitConc /\ [][NextLate]_vars

\* no handler was invoked after the handlers of r that settled without
\* calling next and whose late calls, if any, are among those of `calls`
\* (a global handler that is not the last one is left aside: the last
\* global handler runs after it in any case)
ChainStaysAt(r, calls) ==
  \A k \in DOMAIN r.log :
    (/\ SettledWithoutNext(r, k)
     /\ ~(IsGlobal(r.log[k].h) /\ r.log[k].h # defaultHandlers[Len(defaultHandlers)])
     /\ \A j \in DOMAIN r.late : r.late[j].h = r.log[k].h => r.late[j] \in calls)
      => k = Len(r.log)

\* every late call there can be
LateCalls ==
  [h : {GlobalHandler(1)} \cup Range(RouteHandlers(1, MaxHandlers)),
   error : BOOLEAN, read : BOOLEAN]

\* a late call leaves the other dispatches as they are; next(error) adds one
\* `error` event for its handler and next() none
LateCallEffects ==
  \A d \in Concurrent, k \in 1..(1 + MaxHandlers), error \in BOOLEAN :
    LateNext(d, k, error) =>
      /\ \A e \in Concurrent \ {d} : disp'[e] = disp[e]
      /\ disp'[d].events =
           IF error
           THEN Append(disp[d].events,
                       [name |-> "error", target |-> disp[d].log[k].h, wrapped |-> FALSE])
           ELSE disp[d].events

\* C38 as stated: when a handler's promise has settled before it called
\* next, a call of next() or next(error) made afterwards never makes a
\* further handler of its dispatch run and never changes another dispatch,
\* and a late next(error) still emits one `error` event.
C38_LateNextHasNoEffect ==
  /\ [](\A d \in Concurrent : ChainStaysAt(disp[d], LateCalls))
  /\ [][LateCallEffects]_vars

\* C38, what holds: the same, for the late calls made once the continuation
\* of the await has read the closure's variable, and for every late
\* next(error).
C38_LateNextAfterContinuation ==
  /\ [](\A d \in Concurrent :
          ChainStaysAt(disp[d], {c \in LateCalls : c.read \/ c.error}))
  /\ [][LateCallEffects]_vars

(***************************************************************************)
(* CarrySpec: a router is given a route, global middleware and an event    *)
(* subscription; further routers are constructed, empty or from an array   *)
(* of the existing ones, and take the others with use(); requests are      *)
(* dispatched on the merged router.                                        *)
(***************************************************************************)
\* #defaultHandlers and the subscriptions of this router
ThisMiddleware == [defaultHandlers |-> defaultHandlers, subscriptions |-> subscriptions]

\* new Router(x, options), with what the router built so far holds apart
\* from its tables kept beside it in `built`
ConstructKeeping(x, options) ==
  /\ Constructing(x, options)
  /\ middleware' = IF Constructed THEN Append(middleware, ThisMiddleware) ELSE middleware
  /\ UNCHANGED <<kind, optionObjects>>

NextCarry ==
  \/ Constructed /\ Len(regs) < 1 /\ AddRoute("GET", PA, 1)
  \/ Constructed /\ Len(defaultHandlers) < 1 /\ disp[1].pc = "idle" /\ Use
  \/ Constructed /\ Len(subscriptions) < 1 /\ AddEventListener("error", "f1")
  \/ \E x \in MergeArgs :
       /\ Len(built) < MaxBuilt /\ baseRoutes # <<>> /\ Merged = {}
       /\ ConstructKeeping(x, FALSE)
  \/ \E i \in DOMAIN built : i \notin Merged /\ UseRouter(i)
  \/ \E d \in Dispatches :
       /\ Constructed /\ Merged # {}
       /\ disp[d].pc = "idle" /\ ExecuteHandler(d, "GET", PA)
  \/ \E d \in Dispatches : Step(d)
  \/ \E d \in Dispatches, b \in {"next", "end", "throw"} : HandlerSettles(d, b)

CarrySpec == InitMerge /\ [][NextCarry]_vars

\* the routers set aside are as they were
OthersUntouched ==
  \A i \in DOMAIN built : built'[i] = built[i] /\ middleware'[i] = middleware[i]

\* the global handlers that the dispatch r has invoked
GlobalsInvoked(r) == {k \in DOMAIN r.log : IsGlobal(r.log[k].h)}

\* C39: merging routers carries routes only.  parent.use(child) leaves the
\* parent's defaultHandlers and subscriptions as they were; a router
\* constructed from an array of routers has no global handler and no
\* subscription; both leave the tables, defaultHandlers and subscriptions of
\* the routers merged unchanged; and a request dispatched on the merged
\* router runs no more global handlers than the merged router's own.
C39_MergeCarriesRoutesOnly ==
  /\ [][/\ \A i \in DOMAIN built :
             UseRouter(i) =>
               /\ defaultHandlers' = defaultHandlers
               /\ subscriptions' = subscriptions
               /\ OthersUntouched
        /\ \A x \in MergeArgs :
             (ConstructKeeping(x, FALSE) /\ x.routers # <<>>) =>
               /\ defaultHandlers' = <<>>
               /\ subscriptions' = <<>>
               /\ OthersUntouched
               /\ middleware'[Len(built')] = ThisMiddleware]_vars
  /\ [](\A d \in Dispatches :
          /\ Cardinality(GlobalsInvoked(disp[d])) <= Len(defaultHandlers)
          /\ \A k \in GlobalsInvoked(disp[d]) : disp[d].log[k].h \in Range(defaultHandlers))

\* C39 witness: the child holds a global handler and a subscription; the
\* router that merged it holds neither, and a request dispatched on it has
\* run the child's route handler and no global handler.
C39_Witness ==
  /\ Merged # {}
  /\ \E i \in Merged :
       /\ middleware[i].defaultHandlers # <<>>
       /\ middleware[i].subscriptions # <<>>
       /\ built[i].routes # <<>>
       /\ disp[1].handlers = built[i].routes[1].handlers
  /\ defaultHandlers = <<>>
  /\ subscriptions = <<>>
  /\ disp[1].pc = "done"
  /\ disp[1].log # <<>>
  /\ GlobalsInvoked(disp[1]) = {}

====
